---------------------------- MODULE Spec2Model ----------------------------
(***************************************************************************)
(* A model of convert_to_curve.py (CurveConverter): the transform          *)
(* registry, the validator, the row converter and the file converter.      *)
(*                                                                         *)
(* Text is modelled by TLA+ strings, read character by character with     *)
(* SubSeq.  A cell value is a record [t, s, n, l]: t is its Python kind    *)
(* ("nan" for a missing cell, "str", "num" for a float, "list" for the     *)
(* result of str.split), s the text of a "str", n the number of a "num"    *)
(* in units of 10^-PercentOneDigits, l the items of a "list".              *)
(***************************************************************************)
EXTENDS Integers, Sequences, FiniteSets, TLC

(***************************************************************************)
(* Bounds of the model.                                                    *)
(***************************************************************************)
\* the largest number of data rows of an input file
MaxRows == 2

(***************************************************************************)
(* Program constants.                                                      *)
(***************************************************************************)
\* round(val, 2) in convert_to_percent_100
PercentHundredDigits == 2
\* round(val, 4) in convert_to_percent_1
PercentOneDigits == 4
\* validation_rules.get('max_participants', 10)
DefaultMaxParticipants == 10
\* the share total every row is held against: abs(total - 100)
FullShare == 100
\* the factor between the 0-1 and the 0-100 scale: val *= 100, val /= 100
PercentFactor == 100
\* convert_row(row, idx + 2): 1-based, plus the header line
RowIndexOffset == 2

\* one unit of a "num" is 10^-4: the finest rounding the transforms keep
NumScale == 10 ^ PercentOneDigits

(***************************************************************************)
(* Strings.                                                                *)
(***************************************************************************)
Ch(s, i) == SubSeq(s, i, i)

Max(a, b) == IF a >= b THEN a ELSE b

Min(a, b) == IF a <= b THEN a ELSE b

Abs(a) == IF a < 0 THEN -a ELSE a

\* F(e), with e evaluated once: the value of a local variable of the code
Let(e, F(_)) == CHOOSE y \in { F(v) : v \in {e} } : TRUE

\* the characters str.strip() removes, of those the model's texts hold
IsSpace(c) == c \in {" ", "\t", "\n"}

RECURSIVE LStrip(_)
LStrip(s) ==
    IF s = "" THEN ""
    ELSE IF IsSpace(Ch(s, 1)) THEN LStrip(Tail(s))
    ELSE s

RECURSIVE RStrip(_)
RStrip(s) ==
    IF s = "" THEN ""
    ELSE IF IsSpace(Ch(s, Len(s))) THEN RStrip(SubSeq(s, 1, Len(s) - 1))
    ELSE s

\* str.strip()
StrStrip(s) == RStrip(LStrip(s))

\* str.startswith(p)
StartsWith(s, p) == Len(s) >= Len(p) /\ SubSeq(s, 1, Len(p)) = p

\* str.endswith(p)
EndsWith(s, p) ==
    Len(s) >= Len(p) /\ SubSeq(s, Len(s) - Len(p) + 1, Len(s)) = p

\* s[i:], i counted from 1
From(s, i) == SubSeq(s, i, Len(s))

\* sub in s
Contains(s, sub) ==
    \E i \in 1..(Len(s) - Len(sub) + 1) : SubSeq(s, i, i + Len(sub) - 1) = sub

\* the position of the first occurrence of sub in s (0 when there is none)
FindFirst(s, sub) ==
    IF Contains(s, sub)
    THEN CHOOSE i \in 1..(Len(s) - Len(sub) + 1) :
            /\ SubSeq(s, i, i + Len(sub) - 1) = sub
            /\ \A j \in 1..(i - 1) : SubSeq(s, j, j + Len(sub) - 1) # sub
    ELSE 0

\* str.replace(old, new) for a non-empty old: every occurrence, left to right
RECURSIVE StrReplace(_, _, _)
StrReplace(s, old, new) ==
    Let(FindFirst(s, old), LAMBDA i :
        IF i = 0 THEN s
        ELSE Let(From(s, i + Len(old)), LAMBDA rest :
                SubSeq(s, 1, i - 1) \o new \o StrReplace(rest, old, new)))

\* str.split(sep) for a non-empty sep: the list of the pieces
RECURSIVE StrSplit(_, _)
StrSplit(s, sep) ==
    Let(FindFirst(s, sep), LAMBDA i :
        IF i = 0 THEN <<s>>
        ELSE Let(From(s, i + Len(sep)), LAMBDA rest :
                <<SubSeq(s, 1, i - 1)>> \o StrSplit(rest, sep)))

LowerOf(c) ==
    CASE c = "A" -> "a" [] c = "B" -> "b" [] c = "C" -> "c" [] c = "D" -> "d"
      [] c = "E" -> "e" [] c = "F" -> "f" [] c = "G" -> "g" [] c = "H" -> "h"
      [] c = "I" -> "i" [] c = "J" -> "j" [] c = "K" -> "k" [] c = "L" -> "l"
      [] c = "M" -> "m" [] c = "N" -> "n" [] c = "O" -> "o" [] c = "P" -> "p"
      [] c = "Q" -> "q" [] c = "R" -> "r" [] c = "S" -> "s" [] c = "T" -> "t"
      [] c = "U" -> "u" [] c = "V" -> "v" [] c = "W" -> "w" [] c = "X" -> "x"
      [] c = "Y" -> "y" [] c = "Z" -> "z" [] OTHER -> c

UpperOf(c) ==
    CASE c = "a" -> "A" [] c = "b" -> "B" [] c = "c" -> "C" [] c = "d" -> "D"
      [] c = "e" -> "E" [] c = "f" -> "F" [] c = "g" -> "G" [] c = "h" -> "H"
      [] c = "i" -> "I" [] c = "j" -> "J" [] c = "k" -> "K" [] c = "l" -> "L"
      [] c = "m" -> "M" [] c = "n" -> "N" [] c = "o" -> "O" [] c = "p" -> "P"
      [] c = "q" -> "Q" [] c = "r" -> "R" [] c = "s" -> "S" [] c = "t" -> "T"
      [] c = "u" -> "U" [] c = "v" -> "V" [] c = "w" -> "W" [] c = "x" -> "X"
      [] c = "y" -> "Y" [] c = "z" -> "Z" [] OTHER -> c

\* str.lower() on ASCII text
RECURSIVE StrLower(_)
StrLower(s) == IF s = "" THEN "" ELSE LowerOf(Ch(s, 1)) \o StrLower(Tail(s))

\* str.upper() on ASCII text
RECURSIVE StrUpper(_)
StrUpper(s) == IF s = "" THEN "" ELSE UpperOf(Ch(s, 1)) \o StrUpper(Tail(s))

IsDigit(c) == c \in {"0", "1", "2", "3", "4", "5", "6", "7", "8", "9"}

DigitVal(c) ==
    CASE c = "0" -> 0 [] c = "1" -> 1 [] c = "2" -> 2 [] c = "3" -> 3
      [] c = "4" -> 4 [] c = "5" -> 5 [] c = "6" -> 6 [] c = "7" -> 7
      [] c = "8" -> 8 [] c = "9" -> 9

AllDigits(s) == \A i \in 1..Len(s) : IsDigit(Ch(s, i))

\* the number a run of digits spells
RECURSIVE DigitsVal(_)
DigitsVal(s) ==
    IF s = "" THEN 0
    ELSE 10 * DigitsVal(SubSeq(s, 1, Len(s) - 1)) + DigitVal(Ch(s, Len(s)))

\* re.sub(r'[^0-9]', '', s)
RECURSIVE OnlyDigits(_)
OnlyDigits(s) ==
    IF s = "" THEN ""
    ELSE (IF IsDigit(Ch(s, 1)) THEN Ch(s, 1) ELSE "") \o OnlyDigits(Tail(s))

(***************************************************************************)
(* Numbers.  float(text) accepts, of the texts the model holds: optional   *)
(* surrounding blanks, an optional sign, digits with an optional point     *)
(* and at most PercentOneDigits decimals.  Anything else is a ValueError.  *)
(***************************************************************************)
\* the decimals of a fraction text, padded to PercentOneDigits digits
RECURSIVE PadRightZeros(_, _)
PadRightZeros(s, w) == IF Len(s) >= w THEN s ELSE PadRightZeros(s \o "0", w)

\* the integer part ip and the decimals fp of an unsigned number
FloatOfParts(ip, fp) ==
    IF /\ AllDigits(ip) /\ AllDigits(fp)
       /\ Len(ip) + Len(fp) > 0
       /\ Len(fp) <= PercentOneDigits
    THEN [ok |-> TRUE,
          n  |-> DigitsVal(ip) * NumScale
                   + DigitsVal(PadRightZeros(fp, PercentOneDigits))]
    ELSE [ok |-> FALSE, n |-> 0]

UnsignedFloat(s) ==
    Let(FindFirst(s, "."), LAMBDA dot :
        IF dot = 0 THEN FloatOfParts(s, "")
        ELSE Let(SubSeq(s, 1, dot - 1), LAMBDA ip :
             Let(From(s, dot + 1), LAMBDA fp : FloatOfParts(ip, fp))))

\* float(s) of a text: ok is FALSE where Python raises ValueError
ParseFloat(s) ==
    Let(StrStrip(s), LAMBDA t :
    Let(IF StartsWith(t, "-") \/ StartsWith(t, "+") THEN Tail(t) ELSE t,
        LAMBDA body :
    Let(UnsignedFloat(body), LAMBDA u :
        IF u.ok
        THEN [ok |-> TRUE, n |-> IF StartsWith(t, "-") THEN -u.n ELSE u.n]
        ELSE [ok |-> FALSE, n |-> 0])))

\* round(n / NumScale, digits), in units of 1/NumScale: ties go to the even
\* neighbour, as Python rounds a float whose decimal expansion is exact
RoundTo(n, digits) ==
    LET step == 10 ^ (PercentOneDigits - digits)
        a    == Abs(n)
        q    == a \div step
        r    == a % step
        up   == (2 * r > step) \/ (2 * r = step /\ q % 2 = 1)
        m    == (IF up THEN q + 1 ELSE q) * step
    IN  IF n < 0 THEN -m ELSE m

\* the decimal digits of a natural number
RECURSIVE NatToStr(_)
NatToStr(k) ==
    IF k < 10 THEN ToString(k) ELSE NatToStr(k \div 10) \o ToString(k % 10)

\* a fraction's digits without trailing zeros, at least one digit kept
RECURSIVE TrimZeros(_)
TrimZeros(s) ==
    IF Len(s) > 1 /\ Ch(s, Len(s)) = "0"
    THEN TrimZeros(SubSeq(s, 1, Len(s) - 1))
    ELSE s

RECURSIVE PadLeftZeros(_, _)
PadLeftZeros(s, w) == IF Len(s) >= w THEN s ELSE PadLeftZeros("0" \o s, w)

\* str(x) of a float x = n / NumScale: "50.0", "0.5", "-50.0", "100.004"
FloatToStr(n) ==
    (IF n < 0 THEN "-" ELSE "")
        \o NatToStr(Abs(n) \div NumScale) \o "."
        \o TrimZeros(PadLeftZeros(NatToStr(Abs(n) % NumScale), PercentOneDigits))

(***************************************************************************)
(* Values: what a cell, a default or a transformed field holds.            *)
(***************************************************************************)
\* a missing cell: pandas reads it as the float NaN
NaN == [t |-> "nan", s |-> "", n |-> 0, l |-> <<>>]

Str(s) == [t |-> "str", s |-> s, n |-> 0, l |-> <<>>]

Num(n) == [t |-> "num", s |-> "", n |-> n, l |-> <<>>]

List(l) == [t |-> "list", s |-> "", n |-> 0, l |-> l]

\* pd.isna(value) of a scalar
IsNa(v) == v.t = "nan"

\* bool(value): NaN is a non-zero float, so it is true
Truthy(v) ==
    CASE v.t = "nan"  -> TRUE
      [] v.t = "str"  -> v.s # ""
      [] v.t = "num"  -> v.n # 0
      [] v.t = "list" -> v.l # <<>>

\* repr of a list of texts: ['a', 'b']
RECURSIVE ListItems(_)
ListItems(l) ==
    IF l = <<>> THEN ""
    ELSE "'" \o Head(l) \o "'"
            \o (IF Len(l) > 1 THEN ", " ELSE "") \o ListItems(Tail(l))

\* str(value)
PyStr(v) ==
    CASE v.t = "nan"  -> "nan"
      [] v.t = "str"  -> v.s
      [] v.t = "num"  -> FloatToStr(v.n)
      [] v.t = "list" -> "[" \o ListItems(v.l) \o "]"

\* bool(pd.isna(value)) where the code uses pd.isna in a condition: for a list
\* pd.isna gives an array, whose truth value raises ValueError unless it has
\* exactly one element
IsNaRaises(v) == v.t = "list" /\ Len(v.l) # 1

(***************************************************************************)
(* The transform registry.  A call returns [raised, v, exc]: raised tells  *)
(* that an exception left the function, exc is its text, v the value       *)
(* returned otherwise.                                                     *)
(***************************************************************************)
Ret(v) == [raised |-> FALSE, v |-> v, exc |-> ""]

Raise(exc) == [raised |-> TRUE, v |-> Str(""), exc |-> exc]

\* a rescaling that leaves the value 1 as it is
percent_100_below_one(value) ==
    Let(ParseFloat(StrReplace(value, "%", "")), LAMBDA p :
        IF ~p.ok THEN Num(0)
        ELSE IF 0 <= p.n /\ p.n < NumScale
             THEN Num(RoundTo(p.n * PercentFactor, PercentHundredDigits))
             ELSE Num(RoundTo(p.n, PercentHundredDigits)))

\* convert_to_percent_100
convert_to_percent_100(value) ==
    Let(ParseFloat(StrReplace(value, "%", "")), LAMBDA p :
        IF ~p.ok THEN Num(0)
        ELSE IF 0 <= p.n /\ p.n <= NumScale
             THEN Num(RoundTo(p.n * PercentFactor, PercentHundredDigits))
             ELSE Num(RoundTo(p.n, PercentHundredDigits)))

\* x / 100 rounded to PercentOneDigits decimals (x a multiple of 1/NumScale)
DivHundredRounded(n) ==
    LET a  == Abs(n)
        q  == a \div PercentFactor
        r  == a % PercentFactor
        up == (2 * r > PercentFactor) \/ (2 * r = PercentFactor /\ q % 2 = 1)
        m  == IF up THEN q + 1 ELSE q
    IN  IF n < 0 THEN -m ELSE m

\* a rescaling that divides the value 1 too
percent_1_from_one(value) ==
    Let(ParseFloat(StrReplace(value, "%", "")), LAMBDA p :
        IF ~p.ok THEN Num(0)
        ELSE IF p.n >= NumScale
             THEN Num(DivHundredRounded(p.n))
             ELSE Num(RoundTo(p.n, PercentOneDigits)))

\* convert_to_percent_1
convert_to_percent_1(value) ==
    Let(ParseFloat(StrReplace(value, "%", "")), LAMBDA p :
        IF ~p.ok THEN Num(0)
        ELSE IF p.n > NumScale
             THEN Num(DivHundredRounded(p.n))
             ELSE Num(RoundTo(p.n, PercentOneDigits)))

\* a formatter that takes the first ten of ten or more digits
format_iswc_first_ten(value) ==
    Let(OnlyDigits(value), LAMBDA digits :
        IF value = "" THEN ""
        ELSE IF Len(digits) >= 10
             THEN "T-" \o SubSeq(digits, 1, 9) \o "-" \o Ch(digits, 10)
             ELSE value)

\* format_iswc
format_iswc(value) ==
    Let(OnlyDigits(value), LAMBDA digits :
        IF value = "" THEN ""
        ELSE IF Len(digits) = 10
             THEN "T-" \o SubSeq(digits, 1, 9) \o "-" \o Ch(digits, 10)
             ELSE value)

\* format_isrc
format_isrc(value) ==
    Let(StrStrip(value), LAMBDA v0 :
    Let(IF Contains(v0, "\n") THEN StrStrip(Head(StrSplit(v0, "\n")))
        ELSE IF Contains(v0, ",") THEN StrStrip(Head(StrSplit(v0, ",")))
        ELSE v0, LAMBDA v1 :
    Let(StrReplace(StrReplace(StrUpper(v1), "-", ""), " ", ""), LAMBDA v2 :
        IF value = "" THEN ""
        ELSE IF Len(v2) = 12
             THEN SubSeq(v2, 1, 2) \o "-" \o SubSeq(v2, 3, 5) \o "-"
                    \o SubSeq(v2, 6, 7) \o "-" \o SubSeq(v2, 8, 12)
             ELSE v2)))

\* format_ipi
format_ipi(value) == IF value = "" THEN "" ELSE OnlyDigits(value)

IsLetter(c) == UpperOf(c) # c \/ LowerOf(c) # c

\* str.title(): a letter after a non-letter is upper-cased, the others lowered
RECURSIVE TitleFrom(_, _)
TitleFrom(s, afterLetter) ==
    IF s = "" THEN ""
    ELSE LET c == Ch(s, 1) IN
         (IF afterLetter THEN LowerOf(c) ELSE UpperOf(c))
            \o TitleFrom(Tail(s), IsLetter(c))

StrTitle(s) == TitleFrom(s, FALSE)

\* int(text): optional blanks and sign, then digits; ok is FALSE on ValueError
ParseInt(s) ==
    Let(StrStrip(s), LAMBDA t :
    Let(IF StartsWith(t, "-") \/ StartsWith(t, "+") THEN Tail(t) ELSE t,
        LAMBDA body :
        IF body # "" /\ AllDigits(body)
        THEN [ok |-> TRUE,
              n |-> IF StartsWith(t, "-") THEN -DigitsVal(body)
                    ELSE DigitsVal(body)]
        ELSE [ok |-> FALSE, n |-> 0]))

RECURSIVE Repeat(_, _)
Repeat(c, k) == IF k <= 0 THEN "" ELSE c \o Repeat(c, k - 1)

\* str.zfill(width): the zeros go after a leading sign
StrZfill(s, width) ==
    IF Len(s) >= width THEN s
    ELSE IF s # "" /\ Ch(s, 1) \in {"+", "-"}
         THEN Ch(s, 1) \o Repeat("0", width - Len(s)) \o Tail(s)
         ELSE Repeat("0", width - Len(s)) \o s

\* str.rjust(width, fillchar)
StrRjust(s, width, fill) == Repeat(fill, width - Len(s)) \o s

\* the padleft:<width>:<char> branch of transform_value
PadLeft(value, transform) ==
    Let(StrSplit(transform, ":"), LAMBDA parts :
    Let(ParseInt(parts[2]), LAMBDA width :
        IF ~width.ok THEN Raise("invalid literal for int() with base 10")
        ELSE IF Len(parts) < 3 THEN Raise("list index out of range")
        ELSE IF parts[3] = "0" THEN Ret(Str(StrZfill(value, width.n)))
        ELSE IF Len(parts[3]) # 1
             THEN Raise("The fill character must be exactly one character long")
             ELSE Ret(Str(StrRjust(value, width.n, parts[3])))))

\* dict.get(value, value) on one of the lookup tables
LookupGet(table, value) ==
    IF value \in DOMAIN table THEN table[value] ELSE value

\* the transform names of the chain that take no parameter
ExactTransforms ==
    { "strip", "uppercase", "lowercase", "titlecase", "strip_diacritics",
      "percent_0_100", "percent_0_1", "format_iswc", "format_isrc",
      "format_ipi", "format_duration", "map_role", "map_society",
      "map_territory", "extract_writer_name", "extract_writer_society",
      "extract_writer_ipi", "extract_mechanical_share",
      "extract_performance_share", "extract_additional_writer_name",
      "extract_additional_writer_society",
      "extract_additional_mechanical_share",
      "extract_additional_performance_share", "extract_publisher_name",
      "extract_publisher_society", "extract_publisher_mechanical_share",
      "extract_publisher_performance_share" }

\* the prefixes of the parameterised transforms of the chain
PrefixTransforms == { "to_date:", "padleft:", "concat:", "split:" }

\* a name some branch of transform_value's chain takes
IsRecognised(transform) ==
    \/ transform \in ExactTransforms
    \/ \E p \in PrefixTransforms : StartsWith(transform, p)

\* a short-circuit that tests pd.isna(value) alone
IsNaInputOnly(value) == IsNa(value)

\* the input that short-circuits: pd.isna(value) or value == ''
IsBlankInput(value) == IsNa(value) \/ (value.t = "str" /\ value.s = "")

\* the chain of branches of transform_value, in the order of the source, on
\* the stripped text v.  The branches of strip_diacritics, to_date:,
\* format_duration and extract_* are not part of this model: no transform
\* of the model's mappings names them.
TransformChain(v, transform, lookups) ==
    IF transform = "strip" THEN Ret(Str(StrStrip(v)))
    ELSE IF transform = "uppercase" THEN Ret(Str(StrUpper(v)))
    ELSE IF transform = "lowercase" THEN Ret(Str(StrLower(v)))
    ELSE IF transform = "titlecase" THEN Ret(Str(StrTitle(v)))
    ELSE IF transform = "percent_0_100" THEN Ret(convert_to_percent_100(v))
    ELSE IF transform = "percent_0_1" THEN Ret(convert_to_percent_1(v))
    ELSE IF StartsWith(transform, "padleft:") THEN PadLeft(v, transform)
    ELSE IF StartsWith(transform, "concat:") THEN Ret(Str(v))
    ELSE IF StartsWith(transform, "split:")
      THEN IF transform = "split:" THEN Raise("empty separator")
           ELSE Ret(List(StrSplit(v, From(transform, Len("split:") + 1))))
    ELSE IF transform = "format_iswc" THEN Ret(Str(format_iswc(v)))
    ELSE IF transform = "format_isrc" THEN Ret(Str(format_isrc(v)))
    ELSE IF transform = "format_ipi" THEN Ret(Str(format_ipi(v)))
    ELSE IF transform = "map_role"
      THEN Ret(Str(LookupGet(lookups.role_codes, v)))
    ELSE IF transform = "map_society"
      THEN Ret(Str(LookupGet(lookups.society_codes, v)))
    ELSE IF transform = "map_territory"
      THEN Ret(Str(LookupGet(lookups.territories, v)))
    ELSE CASE ~IsRecognised(transform) -> Ret(Str(v))

\* str(value) with its blanks kept
Unstripped(value) == PyStr(value)

\* value = str(value).strip()
Stripped(value) == StrStrip(PyStr(value))

\* transform_value: [raised, v, exc]
transform_value(value, transform, lookups) ==
    IF IsBlankInput(value) THEN Ret(Str(""))
    ELSE Let(Stripped(value), LAMBDA v : TransformChain(v, transform, lookups))

(***************************************************************************)
(* The validator.                                                          *)
(***************************************************************************)
\* validation_rules.get('share_tolerance', 0.01): 0.01 is 1 / 100
DefaultToleranceInverse == 100

DefaultShareTolerance == NumScale \div DefaultToleranceInverse

\* re.match of a pattern that ends in $: the body of the pattern must match
\* the whole text, or the text without one trailing newline
DollarTexts(text) ==
    {text} \cup (IF EndsWith(text, "\n")
                 THEN {SubSeq(text, 1, Len(text) - 1)} ELSE {})

\* \d{4}-\d{2}-\d{2}
DateBody(t) ==
    /\ Len(t) = 10
    /\ AllDigits(SubSeq(t, 1, 4)) /\ Ch(t, 5) = "-"
    /\ AllDigits(SubSeq(t, 6, 7)) /\ Ch(t, 8) = "-"
    /\ AllDigits(SubSeq(t, 9, 10))

\* T-\d{9}-\d, the default iswc_pattern
IswcBody(t) ==
    /\ Len(t) = 13
    /\ SubSeq(t, 1, 2) = "T-" /\ AllDigits(SubSeq(t, 3, 11))
    /\ Ch(t, 12) = "-" /\ IsDigit(Ch(t, 13))

IsUpperLetter(c) == LowerOf(c) # c

\* [A-Z]{2}[A-Z0-9]{3}\d{7}, the default isrc_pattern
IsrcBody(t) ==
    /\ Len(t) = 12
    /\ \A i \in 1..2 : IsUpperLetter(Ch(t, i))
    /\ \A i \in 3..5 : IsUpperLetter(Ch(t, i)) \/ IsDigit(Ch(t, i))
    /\ AllDigits(SubSeq(t, 6, 12))

\* \d{9} or \d{11}, the default ipi_pattern
IpiBody(t) == Len(t) \in {9, 11} /\ AllDigits(t)

\* the rule names validate_value has a branch for
KnownValidations ==
    { "required", "date_format", "iswc_format", "isrc_format", "ipi_format",
      "share_range", "valid_role", "valid_society" }

\* the values of a lookup table: set(table.values())
TableValues(table) == { table[k] : k \in DOMAIN table }

Errs(e) == [raised |-> FALSE, errors |-> e]

ErrsRaise == [raised |-> TRUE, errors |-> <<>>]

\* the pattern rules: if value and not re.match(pattern, text)
PatternRule(value, matches, message) ==
    IF Truthy(value) /\ ~matches THEN Errs(<<message \o PyStr(value)>>)
    ELSE Errs(<<>>)

\* float(value) of a field value: ok is FALSE on ValueError or TypeError
ValueFloat(value) ==
    CASE value.t = "num"  -> [ok |-> TRUE, n |-> value.n, nan |-> FALSE]
      [] value.t = "nan"  -> [ok |-> TRUE, n |-> 0, nan |-> TRUE]
      [] value.t = "str"  -> Let(ParseFloat(value.s), LAMBDA p :
                                [ok |-> p.ok, n |-> p.n, nan |-> FALSE])
      [] value.t = "list" -> [ok |-> FALSE, n |-> 0, nan |-> FALSE]

\* the valid_role and valid_society rules: value and value not in valid.
\* A list is unhashable: the membership test raises TypeError.
MemberRule(value, valid, message) ==
    IF ~Truthy(value) THEN Errs(<<>>)
    ELSE IF value.t = "list" THEN ErrsRaise
    ELSE IF value.t = "str" /\ value.s \in valid THEN Errs(<<>>)
    ELSE Errs(<<message \o PyStr(value)>>)

\* validate_value: [raised, errors], errors the list of messages returned
validate_value(value, validation, column_name, lookups) ==
    IF validation = "required"
    THEN IF ~Truthy(value) THEN
            Errs(<<"Required field '" \o column_name \o "' is empty">>)
         ELSE IF IsNaRaises(value) THEN ErrsRaise
         ELSE IF IsNa(value) \/ StrStrip(PyStr(value)) = "" THEN
            Errs(<<"Required field '" \o column_name \o "' is empty">>)
         ELSE Errs(<<>>)
    ELSE IF validation = "date_format"
    THEN PatternRule(value, \E t \in DollarTexts(PyStr(value)) : DateBody(t),
            "Invalid date format in '" \o column_name \o "': ")
    ELSE IF validation = "iswc_format"
    THEN PatternRule(value, \E t \in DollarTexts(PyStr(value)) : IswcBody(t),
            "Invalid ISWC format in '" \o column_name \o "': ")
    ELSE IF validation = "isrc_format"
    THEN PatternRule(value,
            \E t \in DollarTexts(StrReplace(PyStr(value), "-", "")) : IsrcBody(t),
            "Invalid ISRC format in '" \o column_name \o "': ")
    ELSE IF validation = "ipi_format"
    THEN PatternRule(value, \E t \in DollarTexts(PyStr(value)) : IpiBody(t),
            "Invalid IPI format in '" \o column_name \o "': ")
    ELSE IF validation = "share_range"
    THEN Let(ValueFloat(value), LAMBDA f :
         IF ~Truthy(value) THEN Errs(<<>>)
         ELSE IF ~f.ok THEN
            Errs(<<"Invalid share value in '" \o column_name \o "': "
                    \o PyStr(value)>>)
         ELSE IF f.nan \/ ~(0 <= f.n /\ f.n <= FullShare * NumScale) THEN
            Errs(<<"Share value out of range (0-100) in '" \o column_name
                    \o "': " \o (IF f.nan THEN "nan" ELSE FloatToStr(f.n))>>)
         ELSE Errs(<<>>))
    ELSE IF validation = "valid_role"
    THEN MemberRule(value, TableValues(lookups.role_codes),
            "Invalid role code in '" \o column_name \o "': ")
    ELSE IF validation = "valid_society"
    THEN MemberRule(value, TableValues(lookups.society_codes),
            "Invalid society code in '" \o column_name \o "': ")
    ELSE Errs(<<>>)

\* f"Participant {i} Mechanical Share"
MechCol(i) == "Participant " \o ToString(i) \o " Mechanical Share"

\* f"Participant {i} Performance Share"
PerfCol(i) == "Participant " \o ToString(i) \o " Performance Share"

\* row.get(col): the field, and whether the row has it
Has(row, col) == col \in DOMAIN row

\* what one share value does inside the try block: "skip" (falsy or NaN),
\* "add" (float(value) is added to the total) or "except" (ValueError or
\* TypeError: the except clause runs `continue`)
ShareStep(row, col) ==
    IF ~Has(row, col) THEN [do |-> "skip", n |-> 0]
    ELSE IF ~Truthy(row[col]) \/ IsNa(row[col]) THEN [do |-> "skip", n |-> 0]
    ELSE Let(ValueFloat(row[col]), LAMBDA f :
            IF f.ok THEN [do |-> "add", n |-> f.n]
            ELSE [do |-> "except", n |-> 0])

\* the loop over the participant slots i..max_participants: the totals
\* [mech, perf] after it.  The mechanical value is added first; an exception
\* on it leaves the slot before the performance value is looked at.
RECURSIVE ShareTotals(_, _, _, _)
ShareTotals(row, i, max_participants, acc) ==
    IF i > max_participants THEN acc
    ELSE Let(ShareStep(row, MechCol(i)), LAMBDA m :
         Let(ShareStep(row, PerfCol(i)), LAMBDA p :
         Let([mech |-> IF m.do = "add" THEN acc.mech + m.n ELSE acc.mech,
              perf |-> IF m.do # "except" /\ p.do = "add"
                       THEN acc.perf + p.n ELSE acc.perf], LAMBDA totals :
            ShareTotals(row, i + 1, max_participants, totals))))

\* whether a required field of the assembled row counts as empty, and
\* whether the test itself raises (pd.isna of a list)
RequiredRaises(row, field) ==
    Has(row, field) /\ Truthy(row[field]) /\ IsNaRaises(row[field])

RequiredEmpty(row, field) ==
    \/ ~Has(row, field)
    \/ ~Truthy(row[field])
    \/ IsNa(row[field])
    \/ StrStrip(PyStr(row[field])) = ""

\* row.get('Work Title', 'Unknown')
WorkTitle(row) ==
    IF Has(row, "Work Title") THEN row["Work Title"] ELSE Str("Unknown")

RowError(row, row_idx, code, detail) ==
    [row_index |-> row_idx, work_title |-> WorkTitle(row),
     error_code |-> code, error_detail |-> detail]

\* the required-field loop of validate_row, in the order of required_fields
RECURSIVE RequiredErrors(_, _, _)
RequiredErrors(row, row_idx, fields) ==
    IF fields = <<>> THEN <<>>
    ELSE (IF RequiredEmpty(row, Head(fields))
          THEN <<RowError(row, row_idx, "REQUIRED_FIELD_MISSING",
                    "Required field '" \o Head(fields) \o "' is empty")>>
          ELSE <<>>)
         \o RequiredErrors(row, row_idx, Tail(fields))

\* total > 0 and abs(total - 100) > tolerance
ShareTotalInvalid(total, tolerance) ==
    total > 0 /\ Abs(total - FullShare * NumScale) > tolerance

\* validate_row: [raised, errors]
validate_row(row, row_idx, rules) ==
    IF \E k \in 1..Len(rules.required_fields) :
            RequiredRaises(row, rules.required_fields[k])
    THEN ErrsRaise
    ELSE Let(ShareTotals(row, 1, rules.max_participants,
                         [mech |-> 0, perf |-> 0]), LAMBDA totals :
         Errs(
            RequiredErrors(row, row_idx, rules.required_fields)
            \o (IF ShareTotalInvalid(totals.mech, rules.share_tolerance)
                THEN <<RowError(row, row_idx, "MECHANICAL_SHARES_INVALID",
                         "Mechanical shares total " \o FloatToStr(totals.mech)
                            \o "%, should be 100%")>>
                ELSE <<>>)
            \o (IF ShareTotalInvalid(totals.perf, rules.share_tolerance)
                THEN <<RowError(row, row_idx, "PERFORMANCE_SHARES_INVALID",
                         "Performance shares total " \o FloatToStr(totals.perf)
                            \o "%, should be 100%")>>
                ELSE <<>>)))

(***************************************************************************)
(* The row converter.  A column mapping is a record [dest, source,         *)
(* transform, default, validation]; source, transform and validation are   *)
(* "" where the mapping leaves them out.  An input row is a function from  *)
(* the header's column names to values; a converted row is a function from *)
(* destination names to values.                                            *)
(***************************************************************************)
\* a column that starts from '' when the row has no source value
SourceOrBlank(col, row) ==
    IF col.source # "" /\ col.source \in DOMAIN row
    THEN row[col.source]
    ELSE Str("")

\* the value a column starts from: row[source] or the default
SourceValue(col, row) ==
    IF col.source # "" /\ col.source \in DOMAIN row
    THEN row[col.source]
    ELSE col.default

\* default or ''
DefaultOrEmpty(col) == IF Truthy(col.default) THEN col.default ELSE Str("")

\* a loop whose turn ends the row when the transform raises
ColumnOutcomeAborting(col, row, lookups) ==
    Let(SourceValue(col, row), LAMBDA v0 :
    Let(IF col.transform # ""
        THEN transform_value(v0, col.transform, lookups)
        ELSE Ret(v0), LAMBDA t :
    Let(IF t.raised THEN DefaultOrEmpty(col) ELSE t.v, LAMBDA value :
    Let(IF col.validation # ""
        THEN validate_value(value, col.validation, col.dest, lookups)
        ELSE Errs(<<>>), LAMBDA c :
        [raised |-> t.raised \/ c.raised, value |-> value,
         row_errors |-> c.errors]))))

\* one turn of convert_row's loop: [raised, value, row_errors], raised when
\* validate_value raises
ColumnOutcome(col, row, lookups) ==
    Let(SourceValue(col, row), LAMBDA v0 :
    Let(IF col.transform # ""
        THEN transform_value(v0, col.transform, lookups)
        ELSE Ret(v0), LAMBDA t :
    Let(IF t.raised THEN DefaultOrEmpty(col) ELSE t.v, LAMBDA value :
    Let(IF col.validation # ""
        THEN validate_value(value, col.validation, col.dest, lookups)
        ELSE Errs(<<>>), LAMBDA c :
        [raised |-> c.raised, value |-> value,
         row_errors |->
            (IF t.raised
             THEN <<"Transform error in " \o col.dest \o ": " \o t.exc>>
             ELSE <<>>) \o c.errors]))))

\* the destinations of a mapping, as a set
Dests(columns) == { columns[k].dest : k \in 1..Len(columns) }

\* result = {} and row_errors = []
EmptyResult == [raised |-> FALSE, result |-> <<>>, row_errors |-> <<>>]

\* convert_row's loop from column k on: [raised, result, row_errors].  A
\* later column of the same destination overwrites result[dest_col].
RECURSIVE RowLoop(_, _, _, _, _)
RowLoop(columns, k, row, lookups, acc) ==
    IF k > Len(columns) \/ acc.raised THEN acc
    ELSE Let(ColumnOutcome(columns[k], row, lookups), LAMBDA o :
         Let([raised |-> o.raised,
              result |-> IF o.raised THEN acc.result
                         ELSE (columns[k].dest :> o.value) @@ acc.result,
              row_errors |-> acc.row_errors \o o.row_errors], LAMBDA a :
            RowLoop(columns, k + 1, row, lookups, a)))

RECURSIVE FieldErrors(_, _, _)
FieldErrors(messages, result, row_idx) ==
    IF messages = <<>> THEN <<>>
    ELSE <<RowError(result, row_idx, "FIELD_ERROR", Head(messages))>>
            \o FieldErrors(Tail(messages), result, row_idx)

\* a convert_row that stores the row-level errors before the field errors
convert_row_rows_first(row, row_idx, cfg) ==
    Let(RowLoop(cfg.columns, 1, row, cfg.lookups, EmptyResult), LAMBDA loop :
        IF loop.raised
        THEN [raised |-> TRUE, result |-> loop.result, errors |-> <<>>]
        ELSE Let(validate_row(loop.result, row_idx, cfg.rules), LAMBDA rowv :
            IF rowv.raised
            THEN [raised |-> TRUE, result |-> loop.result, errors |-> <<>>]
            ELSE [raised |-> FALSE, result |-> loop.result,
                  errors |->
                    rowv.errors
                        \o FieldErrors(loop.row_errors, loop.result, row_idx)]))

\* convert_row: [raised, result, errors]; errors is what the call appends to
\* self.errors.  An exception of validate_value or validate_row leaves the
\* function before anything is appended.
convert_row(row, row_idx, cfg) ==
    Let(RowLoop(cfg.columns, 1, row, cfg.lookups, EmptyResult), LAMBDA loop :
        IF loop.raised
        THEN [raised |-> TRUE, result |-> loop.result, errors |-> <<>>]
        ELSE Let(validate_row(loop.result, row_idx, cfg.rules), LAMBDA rowv :
            IF rowv.raised
            THEN [raised |-> TRUE, result |-> loop.result, errors |-> <<>>]
            ELSE [raised |-> FALSE, result |-> loop.result,
                  errors |->
                    FieldErrors(loop.row_errors, loop.result, row_idx)
                        \o rowv.errors]))

\* _validate_source_columns: the number of mappable columns
MappableColumns(columns, header) ==
    Cardinality({ k \in 1..Len(columns) :
        columns[k].source = "" \/ columns[k].source \in header })

\* the destinations from the last column to the first
ReversedOrder(columns) ==
    [k \in 1..Len(columns) |-> columns[Len(columns) + 1 - k].dest]

\* column_order = [col['dest'] for col in self.columns]
ColumnOrder(columns) == [k \in 1..Len(columns) |-> columns[k].dest]

\* the substitute of a row whose conversion raised
EmptyRow(columns, row_idx) ==
    [d \in Dests(columns) \cup {"Work Title"} |->
        IF d = "Work Title" THEN Str("ERROR_ROW_" \o ToString(row_idx))
        ELSE Str("")]

\* pd.DataFrame(converted_rows, columns=column_order): each row keeps the
\* columns of column_order, a key outside it is dropped
FrameRow(columns, r) ==
    [d \in Dests(columns) |-> IF d \in DOMAIN r THEN r[d] ELSE NaN]

FrameRows(columns, rows) ==
    [k \in 1..Len(rows) |-> FrameRow(columns, rows[k])]

\* the path of the error report
ErrorFilePath(output_file) ==
    StrReplace(StrReplace(output_file, ".xlsx", "_errors.csv"),
               ".csv", "_errors.csv")

(***************************************************************************)
(* The mappings, inputs and outputs the model runs the converter on.       *)
(***************************************************************************)
\* __init__'s default of max_file_size
DefaultMaxFileSize == 100000000

Column(dest, source, transform, default, validation) ==
    [dest |-> dest, source |-> source, transform |-> transform,
     default |-> Str(default), validation |-> validation]

\* the lookups of the test mapping
Lookups ==
    [role_codes |-> ("Writer" :> "CA") @@ ("Composer" :> "C")
                        @@ ("Publisher" :> "E"),
     society_codes |-> ("ASCAP" :> "ASCAP") @@ ("BMI" :> "BMI"),
     territories |-> ("World" :> "WW") @@ ("United States" :> "US")]

Rules(required_fields) ==
    [required_fields |-> required_fields,
     share_tolerance |-> DefaultShareTolerance,
     max_participants |-> DefaultMaxParticipants]

\* a catalogue mapping after the one of the tests: a required, stripped Work
\* Title, share columns, and a column whose source no input has
MapCatalog ==
    [columns |-> <<
        Column("Work Title", "Title", "strip", "", "required"),
        Column("Participant 1 Mechanical Share", "Mech1", "strip", "", ""),
        Column("Participant 1 Performance Share", "Perf1", "percent_0_100", "", ""),
        Column("Participant 2 Mechanical Share", "Mech2", "percent_0_100", "", ""),
        Column("Participant 1 Role", "Role", "map_role", "Writer", "") >>,
     lookups |-> Lookups,
     rules |-> Rules(<<"Work Title">>)]

\* a mapping with no Work Title destination, a title that is split into a
\* list and then validated, and a required share
MapNoTitle ==
    [columns |-> <<
        Column("Song Name", "Title", "split:,", "", "required"),
        Column("Participant 1 Mechanical Share", "Mech1", "percent_0_100", "", "") >>,
     lookups |-> Lookups,
     rules |-> Rules(<<"Participant 1 Mechanical Share">>)]

\* a mapping whose Work Title is split into a list and is a required field
MapSplitTitle ==
    [columns |-> <<
        Column("Work Title", "Title", "split:,", "", ""),
        Column("Participant 1 Mechanical Share", "Mech1", "percent_0_100", "", "") >>,
     lookups |-> Lookups,
     rules |-> Rules(<<"Work Title">>)]

\* a mapping with two columns whose padleft transform raises on every
\* non-blank text (a width that is no integer; no fill character), one of
\* them required and without a default, a column without a source, and a
\* last column whose validation raises on a list of two items
MapDefaults ==
    [columns |-> <<
        Column("Work Title", "Title", "strip", "", "required"),
        Column("Catalog Number", "Mech1", "padleft:x:0", "", "required"),
        Column("Label", "Perf1", "padleft:5", "Indie", ""),
        Column("Territory", "", "map_territory", "World", ""),
        Column("Alt Titles", "Title", "split:,", "", "required") >>,
     lookups |-> Lookups,
     rules |-> Rules(<<"Work Title">>)]

Mappings == { MapCatalog, MapNoTitle, MapSplitTitle }

\* the mappings of the runs that look at defaults and failing transforms
DefaultMappings == { MapCatalog, MapDefaults }

FullHeader == { "Title", "Mech1", "Perf1", "Mech2" }

Row(title, mech1, perf1, mech2) ==
    [c \in FullHeader |->
        CASE c = "Title" -> title [] c = "Mech1" -> mech1
          [] c = "Perf1" -> perf1 [] c = "Mech2" -> mech2]

\* the data rows of the model's input files
InputRows ==
    { Row(Str(" Song "), Str("50"), Str("100"), Str("50")),
      Row(NaN, NaN, NaN, NaN),
      Row(Str("a,b"), Str("0"), NaN, Str("0")),
      Row(Str(" Song "), Str("-50"), NaN, NaN),
      Row(Str(" Song "), Str("abc"), Str("0.5"), Str("0.5")),
      Row(Str("Song"), Str("100.004"), Str("1"), NaN),
      Row(Str(" Song "), Str("50"), Str("0.5"), NaN),
      Row(Str("  "), Str("0"), Str("100"), NaN) }

\* the headers of the model's input files: every source column, the title
\* alone, and a header that has none of the configured sources
Headers == { FullHeader, {"Title"}, {"Other"} }

RowsOver(header) ==
    IF header \subseteq FullHeader
    THEN { [c \in header |-> r[c]] : r \in InputRows }
    ELSE { [c \in header |-> Str("x")] }

\* the sequences of 1..n elements of S
SeqsUpTo(S, n) == UNION { [1..k -> S] : k \in 1..n }

DataFrames ==
    UNION { { [header |-> h, rows |-> rs] : rs \in SeqsUpTo(RowsOver(h), MaxRows) }
            : h \in Headers }

InputFile(path, exists, size, readable, frame) ==
    [path |-> path, exists |-> exists, size |-> size, readable |-> readable,
     frame |-> frame]

OneRowFrame ==
    [header |-> FullHeader,
     rows |-> <<Row(Str(" Song "), Str("50"), Str("100"), Str("50"))>>]

EmptyFrame == [header |-> FullHeader, rows |-> <<>>]

\* the input files: the failures _validate_file_path and the reading meet,
\* and every readable table
InputFiles ==
    { InputFile("in.csv", FALSE, 0, FALSE, EmptyFrame),
      InputFile("in.csv", TRUE, DefaultMaxFileSize + 1, TRUE, OneRowFrame),
      InputFile("in.txt", TRUE, 1, TRUE, OneRowFrame),
      InputFile("in.xlsx", TRUE, 1, FALSE, OneRowFrame),
      InputFile("in.csv", TRUE, 1, TRUE, EmptyFrame),
      InputFile("IN.XLS", TRUE, 1, TRUE, OneRowFrame) }
    \cup { InputFile("in.csv", TRUE, 1, TRUE, f) : f \in DataFrames }

OutputPaths == { "out.csv", "out.xlsx", "out.xls" }

AllPaths == OutputPaths \cup { ErrorFilePath(o) : o \in OutputPaths }

NoFile == [kind |-> "none", format |-> "", columns |-> <<>>, rows |-> <<>>]

ErrorColumns == << "row_index", "work_title", "error_code", "error_detail" >>

NoInput == InputFile("", FALSE, 0, FALSE, [header |-> {}, rows |-> <<>>])

(***************************************************************************)
(* The file converter: one CurveConverter and one convert_file call.       *)
(***************************************************************************)
VARIABLES
    config,          \* self.columns, self.lookups, self.validation_rules
    strict,          \* self.strict
    errors,          \* self.errors
    pc,              \* where convert_file is
    input_file,      \* the file the input path names
    output_file,     \* the output path
    df,              \* the table read
    idx,             \* the position of the next row, from 1
    converted_rows,
    conversion_errors,
    files,           \* what the run wrote, by path
    result,          \* what convert_file returned: "none", "True", "False"
    caught,          \* the exception convert_file's handlers caught, or ""
    probe            \* a single call of transform_value or validate_value

vars == << config, strict, errors, pc, input_file, output_file, df, idx,
           converted_rows, conversion_errors, files, result, caught, probe >>

NoProbe ==
    [op |-> "none", value |-> NaN, name |-> "", done |-> FALSE,
     out |-> Ret(Str("")), errs |-> Errs(<<>>)]

\* the state after CurveConverter(mapping_file, strict)
InitConverter ==
    /\ config \in Mappings
    /\ strict \in BOOLEAN
    /\ errors = <<>>
    /\ pc = "idle"
    /\ input_file = NoInput
    /\ output_file = ""
    /\ df = [header |-> {}, rows |-> <<>>]
    /\ idx = 1
    /\ converted_rows = <<>>
    /\ conversion_errors = 0
    /\ files = [p \in AllPaths |-> NoFile]
    /\ result = "none"
    /\ caught = ""

Init == InitConverter /\ probe = NoProbe

\* an exception reaches the handlers of convert_file: return False
ReturnFalse(exc) ==
    /\ pc' = "returned"
    /\ result' = "False"
    /\ caught' = exc

\* convert_file, from the call to `self.errors = []`
ValidateFilePath ==
    /\ pc = "idle"
    /\ \E f \in InputFiles, o \in OutputPaths :
        /\ input_file' = f
        /\ output_file' = o
        /\ IF ~f.exists
           THEN ReturnFalse("FileNotFoundError") /\ UNCHANGED errors
           ELSE IF f.size > DefaultMaxFileSize
           THEN ReturnFalse("ValueError") /\ UNCHANGED errors
           ELSE /\ pc' = "reading"
                /\ errors' = <<>>
                /\ UNCHANGED << result, caught >>
    /\ UNCHANGED << config, strict, df, idx, converted_rows,
                    conversion_errors, files, probe >>

\* a reader that takes any file for a CSV file
AnyInput(path) == TRUE

SupportedInput(path) ==
    \/ EndsWith(StrLower(path), ".xlsx")
    \/ EndsWith(StrLower(path), ".xls")
    \/ EndsWith(StrLower(path), ".csv")

\* convert_file, from the reading to _validate_source_columns
ReadInput ==
    /\ pc = "reading"
    /\ IF \/ ~SupportedInput(input_file.path)
          \/ ~input_file.readable
          \/ input_file.frame.rows = <<>>
          \/ MappableColumns(config.columns, input_file.frame.header) = 0
       THEN /\ ReturnFalse("ValueError")
            /\ UNCHANGED << df, idx, converted_rows, conversion_errors >>
       ELSE /\ df' = input_file.frame
            /\ idx' = 1
            /\ converted_rows' = <<>>
            /\ conversion_errors' = 0
            /\ pc' = "converting"
            /\ UNCHANGED << result, caught >>
    /\ UNCHANGED << config, strict, errors, input_file, output_file, files, probe >>

\* an index that counts the data rows from 1
RowIdxWithoutHeader(k) == k

\* idx + 2 for the 0-based idx of df.iterrows()
RowIdx(k) == k - 1 + RowIndexOffset

\* a list that takes each new row at its front
PrependRow(rows, row) == <<row>> \o rows

\* converted_rows.append(row)
AppendRow(rows, row) == Append(rows, row)

\* one turn of the loop over df.iterrows(): the row converts
ConvertRow ==
    /\ pc = "converting"
    /\ idx <= Len(df.rows)
    /\ \E r \in {convert_row(df.rows[idx], RowIdx(idx), config)} :
        /\ ~r.raised
        /\ converted_rows' = AppendRow(converted_rows, r.result)
        /\ errors' = errors \o r.errors
    /\ idx' = idx + 1
    /\ UNCHANGED << config, strict, pc, input_file, output_file, df,
                    conversion_errors, files, result, caught, probe >>

\* one turn of the loop: convert_row raises and the converter is not strict
ConvertRowSubstitute ==
    /\ pc = "converting"
    /\ idx <= Len(df.rows)
    /\ convert_row(df.rows[idx], RowIdx(idx), config).raised
    /\ ~strict
    /\ conversion_errors' = conversion_errors + 1
    /\ converted_rows' =
            AppendRow(converted_rows, EmptyRow(config.columns, RowIdx(idx)))
    /\ idx' = idx + 1
    /\ UNCHANGED << config, strict, errors, pc, input_file, output_file, df,
                    files, result, caught, probe >>

\* a strict converter that logs the failure of the row and goes on
ConvertRowSkipped ==
    /\ pc = "converting"
    /\ idx <= Len(df.rows)
    /\ convert_row(df.rows[idx], RowIdx(idx), config).raised
    /\ strict
    /\ conversion_errors' = conversion_errors + 1
    /\ idx' = idx + 1
    /\ UNCHANGED << config, strict, errors, pc, input_file, output_file, df,
                    converted_rows, files, result, caught, probe >>

\* one turn of the loop: convert_row raises and the converter is strict
ConvertRowAbort ==
    /\ pc = "converting"
    /\ idx <= Len(df.rows)
    /\ convert_row(df.rows[idx], RowIdx(idx), config).raised
    /\ strict
    /\ conversion_errors' = conversion_errors + 1
    /\ ReturnFalse("TransformError")
    /\ UNCHANGED << config, strict, errors, input_file, output_file, df, idx,
                    converted_rows, files, probe >>

OutputTable ==
    [kind |-> "table",
     format |-> IF EndsWith(StrLower(output_file), ".xlsx") THEN "xlsx" ELSE "csv",
     columns |-> ColumnOrder(config.columns),
     rows |-> FrameRows(config.columns, converted_rows)]

\* a writer that does not wait for the end of the loop
WriteOutputEarly ==
    /\ pc = "converting"
    /\ converted_rows # <<>>
    /\ files' = [files EXCEPT ![output_file] = OutputTable]
    /\ pc' = "reporting"
    /\ UNCHANGED << config, strict, errors, input_file, output_file, df, idx,
                    converted_rows, conversion_errors, result, caught, probe >>

\* after the loop: the output table is written
WriteOutput ==
    /\ pc = "converting"
    /\ idx > Len(df.rows)
    /\ converted_rows # <<>>
    /\ files' = [files EXCEPT ![output_file] = OutputTable]
    /\ pc' = "reporting"
    /\ UNCHANGED << config, strict, errors, input_file, output_file, df, idx,
                    converted_rows, conversion_errors, result, caught, probe >>

\* after the loop: there is no row, or creating the directory or writing the
\* output raises
WriteOutputFails ==
    /\ pc = "converting"
    /\ idx > Len(df.rows)
    /\ IF converted_rows = <<>> THEN ReturnFalse("ValueError")
       ELSE \E exc \in {"PermissionError", "IOError"} : ReturnFalse(exc)
    /\ UNCHANGED << config, strict, errors, input_file, output_file, df, idx,
                    converted_rows, conversion_errors, files, probe >>

ErrorTable ==
    [kind |-> "errors", format |-> "csv", columns |-> ErrorColumns,
     rows |-> errors]

\* if self.errors: the report is written (or writing it fails, which is
\* logged), then strict mode returns False
ReportErrors ==
    /\ pc = "reporting"
    /\ errors # <<>>
    /\ \/ files' = [files EXCEPT ![ErrorFilePath(output_file)] = ErrorTable]
       \/ UNCHANGED files
    /\ pc' = "returned"
    /\ result' = IF strict THEN "False" ELSE "True"
    /\ UNCHANGED << config, strict, errors, input_file, output_file, df, idx,
                    converted_rows, conversion_errors, caught, probe >>

\* else: no validation errors found; return True
ReturnTrue ==
    /\ pc = "reporting"
    /\ errors = <<>>
    /\ pc' = "returned"
    /\ result' = "True"
    /\ UNCHANGED << config, strict, errors, input_file, output_file, df, idx,
                    converted_rows, conversion_errors, files, caught, probe >>

Next ==
    \/ ValidateFilePath
    \/ ReadInput
    \/ ConvertRow
    \/ ConvertRowSubstitute
    \/ ConvertRowAbort
    \/ WriteOutput
    \/ WriteOutputFails
    \/ ReportErrors
    \/ ReturnTrue

Spec == Init /\ [][Next]_vars

\* convert_file is sequential code: a call that can take a step takes it
SpecFair == Spec /\ WF_vars(Next)

\* convert_file on a converter of one of the mappings with defaults
InitDefaults ==
    /\ config \in DefaultMappings
    /\ strict \in BOOLEAN
    /\ errors = <<>>
    /\ pc = "idle"
    /\ input_file = NoInput
    /\ output_file = ""
    /\ df = [header |-> {}, rows |-> <<>>]
    /\ idx = 1
    /\ converted_rows = <<>>
    /\ conversion_errors = 0
    /\ files = [p \in AllPaths |-> NoFile]
    /\ result = "none"
    /\ caught = ""
    /\ probe = NoProbe

SpecDefaults == InitDefaults /\ [][Next]_vars

(***************************************************************************)
(* Several convert_file calls on one converter.  self.errors, the files    *)
(* written and the mapping outlive a call; the locals of convert_file do   *)
(* not.  In these runs probe.value.n is the number of the call and         *)
(* probe.errs.errors is self.errors as the call found it.                  *)
(***************************************************************************)
\* the number of convert_file calls on the converter
MaxCalls == 2

\* the inputs of these runs: the files _validate_file_path rejects and the
\* readable files of at most one row
AgainFiles == { f \in InputFiles : Len(f.frame.rows) <= 1 }

InitAgain ==
    /\ InitConverter
    /\ probe = [NoProbe EXCEPT !.op = "convert_file", !.value = Num(1)]

\* the next converter.convert_file(input_file, output_file) of the caller
CallAgain ==
    /\ pc = "returned"
    /\ probe.value.n < MaxCalls
    /\ pc' = "idle"
    /\ input_file' = NoInput
    /\ output_file' = ""
    /\ df' = [header |-> {}, rows |-> <<>>]
    /\ idx' = 1
    /\ converted_rows' = <<>>
    /\ conversion_errors' = 0
    /\ result' = "none"
    /\ caught' = ""
    /\ probe' = [probe EXCEPT !.value = Num(probe.value.n + 1),
                              !.errs = Errs(errors)]
    /\ UNCHANGED << config, strict, errors, files >>

\* the start of a call on one of these inputs, writing to out.csv
ValidateFilePathAgain ==
    /\ ValidateFilePath
    /\ input_file' \in AgainFiles
    /\ output_file' = "out.csv"

NextAgain ==
    \/ CallAgain
    \/ ValidateFilePathAgain
    \/ ReadInput
    \/ ConvertRow
    \/ ConvertRowSubstitute
    \/ ConvertRowAbort
    \/ WriteOutput
    \/ WriteOutputFails
    \/ ReportErrors
    \/ ReturnTrue

SpecAgain == InitAgain /\ [][NextAgain]_vars

(***************************************************************************)
(* Single calls of transform_value and validate_value, on arguments drawn  *)
(* from the sets below.                                                    *)
(***************************************************************************)
\* the values the calls are made on: cells as read, values after a transform
CallValues ==
    { NaN, Str(""), Str(" Song "), Str("  "), Str("50%"), Str("a,b"),
      Str("Writer"), Num(0), Num(505000), List(<<>>), List(<<"a", "b">>),
      Str("-5"), Str("+12"), Str("2024-01-15"), Str("01/15/2024"),
      Str("2024-01-15\n"), Str("2024-1-15") }

\* the names the calls are made with: transforms of the chain, parameterised
\* ones that raise, validation rules, and names of neither kind
CallNames ==
    { "strip", "uppercase", "lowercase", "titlecase", "percent_0_100",
      "percent_0_1", "padleft:5:0", "padleft:5:*", "padleft:x:0", "padleft:5",
      "concat:-", "split:,", "split:", "format_iswc", "format_isrc",
      "format_ipi", "map_role", "map_society", "map_territory",
      "strip_diacritics", "to_date:%Y-%m-%d", "format_duration",
      "extract_writer_name",
      "required", "date_format", "iswc_format", "isrc_format", "ipi_format",
      "share_range", "valid_role", "valid_society",
      "", "mystery", "Strip", "padleft", "to_date", "Required", "split" }

\* the transform names whose branch this model has
ModelledTransform(transform) ==
    \/ ~IsRecognised(transform)
    \/ transform \in ExactTransforms
            \ ({ "strip_diacritics", "format_duration" }
                \cup { t \in ExactTransforms : StartsWith(t, "extract_") })
    \/ \E p \in PrefixTransforms \ {"to_date:"} : StartsWith(transform, p)

InitCalls ==
    /\ InitConverter
    /\ config = MapCatalog
    /\ ~strict
    /\ \E v \in CallValues, n \in CallNames :
            probe = [NoProbe EXCEPT !.value = v, !.name = n]

\* converter.transform_value(value, name, lookups)
TransformValueCall ==
    /\ ~probe.done
    /\ probe.value.t # "list"
    /\ IsBlankInput(probe.value) \/ ModelledTransform(probe.name)
    /\ probe' = [probe EXCEPT
            !.op = "transform_value", !.done = TRUE,
            !.out = transform_value(probe.value, probe.name, config.lookups)]
    /\ UNCHANGED << config, strict, errors, pc, input_file, output_file, df,
                    idx, converted_rows, conversion_errors, files, result,
                    caught >>

\* converter.validate_value(value, name, 'Field')
ValidateValueCall ==
    /\ ~probe.done
    /\ probe' = [probe EXCEPT
            !.op = "validate_value", !.done = TRUE,
            !.errs = validate_value(probe.value, probe.name, "Field",
                                    config.lookups)]
    /\ UNCHANGED << config, strict, errors, pc, input_file, output_file, df,
                    idx, converted_rows, conversion_errors, files, result,
                    caught >>

NextCalls == TransformValueCall \/ ValidateValueCall

SpecCalls == InitCalls /\ [][NextCalls]_vars

\* extract_writer_name(value) on a text.  re.search of
\* ^([^(]+?)(?:\s*\(|$) fails only when the text starts with '(': the lazy
\* group otherwise ends where only white space is left before the first '(',
\* or, with no '(', at the end of the text (or before its last newline); the
\* splits at '(' and ' - ' are the fallback for a text without a match
extract_writer_name(value) ==
    IF value = "" THEN ""
    ELSE Let(FindFirst(value, "("), LAMBDA p :
        IF p = 1
        THEN StrStrip(Head(StrSplit(Head(StrSplit(value, "(")), " - ")))
        ELSE IF p = 0 THEN StrStrip(value)
        ELSE StrStrip(SubSeq(value, 1, p - 1)))

(***************************************************************************)
(* Single calls of the percent and code formatters on a text, and a second *)
(* call on the result of the first.                                        *)
(***************************************************************************)
\* the number of percentages the model steps through, in steps of 0.1237
MaxSteps == 12

PercentTexts ==
    { FloatToStr(k * 1237) : k \in 0..MaxSteps }
    \cup { "0.5", "1", "1.0", "50", "50%", "100", "100%", "33.333", "50.126",
           "0.3333", "1.0001", "99.999", "250", "-5", "-0.25", " 25 ",
           "abc", "", "%", "1,5", "5 0" }

IswcTexts ==
    { "T-123456789-0", "1234567890", "T1234567890", "T-123.456.789-0",
      " 1234567890 ", "ISWC T-034524680-1", "12345", "123456789",
      "T-12345678901", "abc", "T-0000000000" }

IsrcTexts ==
    { "USRC17607839", "us-rc1-76-07839", " USRC17607839 ", "US RC1 76 07839",
      "USRC17607839\nGBAYE0000001", "USRC17607839,GBAYE0000001",
      "USRC17607839, GBAYE0000001", "US-RC1-76-07839\ngb-aye-00-00001",
      "USRC17607839\nGBAYE0000001,FRZ039800212",
      "USRC17607839,GBAYE0000001\nFRZ039800212",
      "ABC", "abc,def", "USRC1760783" }

WriterTexts ==
    { "John Doe - 50%", "Jorge Barreiro (pka Pelegrin) (ASCAP) - 50%",
      "Jane Roe (BMI)", "A - B (C)", "(ASCAP) X", "Solo", " Solo \n",
      "Ann Lee(ASCAP)", "X - Y", "Al-Bo (x)", " (x)", " - 50%" }

FormatTexts == PercentTexts \cup IswcTexts \cup IsrcTexts \cup WriterTexts

InitFormat ==
    /\ InitConverter
    /\ config = MapCatalog
    /\ ~strict
    /\ \E t \in FormatTexts : probe = [NoProbe EXCEPT !.value = Str(t)]

\* converter.convert_to_percent_100(text)
Percent100Call ==
    /\ ~probe.done
    /\ probe.value.s \in PercentTexts \cup IsrcTexts
    /\ probe' = [probe EXCEPT
            !.op = "percent_0_100", !.done = TRUE,
            !.out = Ret(convert_to_percent_100(probe.value.s))]
    /\ UNCHANGED << config, strict, errors, pc, input_file, output_file, df,
                    idx, converted_rows, conversion_errors, files, result,
                    caught >>

\* converter.convert_to_percent_1(text)
Percent1Call ==
    /\ ~probe.done
    /\ probe.value.s \in PercentTexts \cup IsrcTexts
    /\ probe' = [probe EXCEPT
            !.op = "percent_0_1", !.done = TRUE,
            !.out = Ret(convert_to_percent_1(probe.value.s))]
    /\ UNCHANGED << config, strict, errors, pc, input_file, output_file, df,
                    idx, converted_rows, conversion_errors, files, result,
                    caught >>

\* converter.convert_to_percent_1(y) of the float y that
\* convert_to_percent_100 returned: the function reads str(y)
Percent1OfPercent100 ==
    /\ probe.done /\ probe.op = "percent_0_100" /\ probe.name = ""
    /\ probe' = [probe EXCEPT
            !.op = "percent_0_1", !.name = "percent_0_100",
            !.out = Ret(convert_to_percent_1(PyStr(probe.out.v)))]
    /\ UNCHANGED << config, strict, errors, pc, input_file, output_file, df,
                    idx, converted_rows, conversion_errors, files, result,
                    caught >>

\* converter.format_iswc(text)
FormatIswcCall ==
    /\ ~probe.done
    /\ probe' = [probe EXCEPT
            !.op = "format_iswc", !.done = TRUE,
            !.out = Ret(Str(format_iswc(probe.value.s)))]
    /\ UNCHANGED << config, strict, errors, pc, input_file, output_file, df,
                    idx, converted_rows, conversion_errors, files, result,
                    caught >>

\* converter.format_iswc of the text that format_iswc returned
FormatIswcAgain ==
    /\ probe.done /\ probe.op = "format_iswc" /\ probe.name = ""
    /\ probe' = [probe EXCEPT
            !.name = "format_iswc",
            !.out = Ret(Str(format_iswc(probe.out.v.s)))]
    /\ UNCHANGED << config, strict, errors, pc, input_file, output_file, df,
                    idx, converted_rows, conversion_errors, files, result,
                    caught >>

\* converter.format_isrc(text)
FormatIsrcCall ==
    /\ ~probe.done
    /\ probe' = [probe EXCEPT
            !.op = "format_isrc", !.done = TRUE,
            !.out = Ret(Str(format_isrc(probe.value.s)))]
    /\ UNCHANGED << config, strict, errors, pc, input_file, output_file, df,
                    idx, converted_rows, conversion_errors, files, result,
                    caught >>

\* converter.extract_writer_name(text)
ExtractWriterNameCall ==
    /\ ~probe.done
    /\ probe' = [probe EXCEPT
            !.op = "extract_writer_name", !.done = TRUE,
            !.out = Ret(Str(extract_writer_name(probe.value.s)))]
    /\ UNCHANGED << config, strict, errors, pc, input_file, output_file, df,
                    idx, converted_rows, conversion_errors, files, result,
                    caught >>

NextFormat ==
    \/ ExtractWriterNameCall
    \/ Percent100Call
    \/ Percent1Call
    \/ Percent1OfPercent100
    \/ FormatIswcCall
    \/ FormatIswcAgain
    \/ FormatIsrcCall

SpecFormat == InitFormat /\ [][NextFormat]_vars

(***************************************************************************)
(* The constructor: CurveConverter(mapping_file).  A mapping file is a     *)
(* record [exists, size, config]; config is what yaml.safe_load returns:   *)
(* [t |-> "none"] for an empty file, or a dictionary with or without the   *)
(* key 'columns'.  A column entry is [dict, fields]: whether it is a       *)
(* dictionary, and its keys with their values.                             *)
(***************************************************************************)
\* the longest 'columns' list of the model's mapping files
MaxColumns == 3

\* the size limit of _validate_inputs, in bytes
MappingSizeLimit == 10000000

Entry(fields) == [dict |-> TRUE, fields |-> fields]

\* an entry that is a plain string
TextEntry == [dict |-> FALSE, fields |-> <<>>]

ColumnEntries ==
    { Entry(("dest" :> "Work Title") @@ ("source" :> "Title")
                @@ ("transform" :> "strip")),
      Entry(("dest" :> "Label") @@ ("transform" :> "mystery")),
      Entry(("dest" :> "Code") @@ ("source" :> "Mech1")
                @@ ("transform" :> "padleft:5:0")),
      Entry(("source" :> "Title") @@ ("transform" :> "strip")),
      TextEntry }

EmptyConfigFile == [t |-> "none", has_columns |-> FALSE, columns |-> <<>>]

ConfigWithout == [t |-> "dict", has_columns |-> FALSE, columns |-> <<>>]

ConfigWith(columns) == [t |-> "dict", has_columns |-> TRUE, columns |-> columns]

MappingFile(exists, size, yaml) ==
    [exists |-> exists, size |-> size, config |-> yaml]

MappingFiles ==
    { MappingFile(FALSE, 0, EmptyConfigFile),
      MappingFile(TRUE, MappingSizeLimit + 1,
                  ConfigWith(<<CHOOSE e \in ColumnEntries :
                                "dest" \in DOMAIN e.fields>>)),
      MappingFile(TRUE, 0, EmptyConfigFile),
      MappingFile(TRUE, 1, ConfigWithout),
      MappingFile(TRUE, 1, ConfigWith(<<>>)) }
    \cup { MappingFile(TRUE, 1, ConfigWith(c)) :
                c \in SeqsUpTo(ColumnEntries, MaxColumns) }

\* column.get(key, '')
EntryGet(entry, key) ==
    IF key \in DOMAIN entry.fields THEN entry.fields[key] ELSE ""

\* _validate_inputs: the message of the ConfigurationError raised, or ""
ValidateInputs(file) ==
    IF ~file.exists THEN "Mapping file not found"
    ELSE IF file.size > MappingSizeLimit THEN "Mapping file too large"
    ELSE ""

\* a check of the entries that asks for a dictionary and no more
ValidateDictionariesOnly(columns) ==
    IF \E i \in 1..Len(columns) : ~columns[i].dict
    THEN "Column mapping must be a dictionary"
    ELSE ""

\* _validate_column_mappings: the message of the ConfigurationError raised
\* for the first bad entry, or "".  A transform outside valid_transforms is
\* logged as a warning.
ValidateColumnMappings(columns) ==
    IF \E i \in 1..Len(columns) :
            ~columns[i].dict \/ "dest" \notin DOMAIN columns[i].fields
    THEN Let(CHOOSE i \in 1..Len(columns) :
                /\ ~columns[i].dict \/ "dest" \notin DOMAIN columns[i].fields
                /\ \A j \in 1..(i - 1) :
                    columns[j].dict /\ "dest" \in DOMAIN columns[j].fields,
             LAMBDA i :
                IF ~columns[i].dict THEN "Column mapping must be a dictionary"
                ELSE "Column mapping missing required field: dest")
    ELSE ""

\* self.lookups = self.config.get('lookups', {})
NoLookups ==
    [role_codes |-> <<>>, society_codes |-> <<>>, territories |-> <<>>]

\* self.columns, self.lookups and self.validation_rules after load_mapping
LoadedConfig(yaml) ==
    [columns |->
        [i \in 1..Len(yaml.columns) |->
            Column(EntryGet(yaml.columns[i], "dest"),
                   EntryGet(yaml.columns[i], "source"),
                   EntryGet(yaml.columns[i], "transform"), "", "")],
     lookups |-> NoLookups,
     rules |-> Rules(<<>>)]

\* load_mapping: the message of the ConfigurationError raised, or ""
LoadMapping(yaml) ==
    IF yaml.t = "none" THEN "Empty configuration file"
    ELSE IF ~yaml.has_columns
    THEN "Missing 'columns' section in configuration"
    ELSE IF yaml.columns = <<>> THEN "No column mappings defined"
    ELSE ValidateColumnMappings(yaml.columns)

\* no converter yet
NoConfig == [columns |-> <<>>, lookups |-> NoLookups, rules |-> Rules(<<>>)]

InitLoad ==
    /\ config = NoConfig
    /\ strict \in BOOLEAN
    /\ errors = <<>>
    /\ pc = "constructing"
    /\ input_file = NoInput
    /\ output_file = ""
    /\ df = [header |-> {}, rows |-> <<>>]
    /\ idx = 1
    /\ converted_rows = <<>>
    /\ conversion_errors = 0
    /\ files = [p \in AllPaths |-> NoFile]
    /\ result = "none"
    /\ caught = ""
    /\ \E f \in MappingFiles : probe = [NoProbe EXCEPT !.value = f]

\* __init__: _validate_inputs, then load_mapping.  Either raises
\* ConfigurationError and there is no converter, or the converter is ready
\* for convert_file.
Construct ==
    /\ pc = "constructing"
    /\ \E failure \in
            { IF ValidateInputs(probe.value) # ""
              THEN ValidateInputs(probe.value)
              ELSE LoadMapping(probe.value.config) } :
        IF failure # ""
        THEN /\ probe' = [probe EXCEPT
                    !.op = "CurveConverter", !.done = TRUE,
                    !.out = Raise("ConfigurationError: " \o failure)]
             /\ pc' = "raised"
             /\ UNCHANGED config
        ELSE /\ probe' = [probe EXCEPT
                    !.op = "CurveConverter", !.done = TRUE]
             /\ pc' = "idle"
             /\ config' = LoadedConfig(probe.value.config)
    /\ UNCHANGED << strict, errors, input_file, output_file, df, idx,
                    converted_rows, conversion_errors, files, result,
                    caught >>

NextLoad == Construct

SpecLoad == InitLoad /\ [][NextLoad]_vars

(***************************************************************************)
(* Properties of the single calls.                                         *)
(***************************************************************************)
\* C1: transform_value on a blank input (NaN or the empty string) returns
\* the empty string and raises nothing, whatever the transform name: a known
\* transform, a parameterised one (also one whose parameters would make its
\* branch raise) or an unknown name.
C1_BlankInputGivesEmptyString ==
    (/\ probe.done /\ probe.op = "transform_value"
     /\ (probe.value = NaN \/ probe.value = Str("")))
    => (/\ ~probe.out.raised
        /\ probe.out.v = Str(""))

\* the empty string was given to split with an empty separator, a branch
\* that raises on any text it runs on
C1_Witness ==
    /\ probe.done /\ probe.op = "transform_value"
    /\ probe.value = Str("") /\ probe.name = "split:"
    /\ TransformChain("", "split:", Lookups).raised
    /\ probe.out = Ret(Str(""))

\* the names spec.md and the chain of the source give a meaning to
SpecTransformNames ==
    { "strip", "uppercase", "lowercase", "titlecase", "strip_diacritics",
      "percent_0_100", "percent_0_1", "format_iswc", "format_isrc",
      "format_ipi", "format_duration", "map_role", "map_society",
      "map_territory" }

SpecTransformPrefixes == { "to_date:", "padleft:", "concat:", "split:", "extract_" }

SpecValidationNames ==
    { "required", "date_format", "iswc_format", "isrc_format", "ipi_format",
      "share_range", "valid_role", "valid_society" }

UnknownTransformName(name) ==
    /\ name \notin SpecTransformNames
    /\ \A p \in SpecTransformPrefixes : ~StartsWith(name, p)

\* C2: on a value that is not blank, a transform name that is none of the
\* recognised ones makes transform_value return str(value) with its leading
\* and trailing blanks removed, and raise nothing; a validation name that is
\* no recognised rule makes validate_value return no error, on any value.
C2_UnknownNamesPassThrough ==
    /\ (/\ probe.done /\ probe.op = "transform_value"
        /\ probe.value # NaN /\ probe.value # Str("")
        /\ UnknownTransformName(probe.name))
       => (/\ ~probe.out.raised
           /\ probe.out.v = Str(StrStrip(PyStr(probe.value))))
    /\ (/\ probe.done /\ probe.op = "validate_value"
        /\ probe.name \notin SpecValidationNames)
       => probe.errs = Errs(<<>>)

\* an unknown transform was applied to a text with blanks around it, and an
\* unknown rule to a value the rules of the chain reject
C2_Witness ==
    /\ probe.done
    /\ \/ (/\ probe.op = "transform_value" /\ probe.name = "Strip"
            /\ probe.value = Str(" Song ") /\ probe.out.v = Str("Song"))
       \/ (/\ probe.op = "validate_value" /\ probe.name = "Required"
            /\ probe.value = Str("  ")
            /\ validate_value(probe.value, "required", "Field", Lookups).errors
                    # <<>>)

(***************************************************************************)
(* Properties of convert_file, on the runs of Spec.                        *)
(***************************************************************************)
\* the run ended without an exception reaching the handlers of convert_file
RanToTheEnd == pc = "returned" /\ caught = ""

\* output row k stands for a row convert_row returned
Converted(k) == converted_rows[k] # EmptyRow(config.columns, RowIdx(k))

\* the errors of the run for row k with the given code
ErrorsOf(k, code) ==
    SelectSeq(errors,
        LAMBDA e : e.row_index = RowIdx(k) /\ e.error_code = code)

\* the number a share field stands for: none (0) when absent or blank
ShareNumber(row, col) ==
    IF col \notin DOMAIN row THEN 0
    ELSE CASE row[col].t = "num" -> row[col].n
           [] row[col].t = "str" /\ StrStrip(row[col].s) # "" ->
                ParseFloat(row[col].s).n
           [] OTHER -> 0

\* the field is absent, blank or a number
ShareIsNumber(row, col) ==
    \/ col \notin DOMAIN row
    \/ row[col].t \in {"num", "nan"}
    \/ row[col].t = "str"
        /\ (StrStrip(row[col].s) = "" \/ ParseFloat(row[col].s).ok)

ShareCol(kind, i) == IF kind = "mech" THEN MechCol(i) ELSE PerfCol(i)

RECURSIVE SumOfShares(_, _, _)
SumOfShares(row, kind, i) ==
    IF i = 0 THEN 0
    ELSE ShareNumber(row, ShareCol(kind, i)) + SumOfShares(row, kind, i - 1)

ShareCode(kind) ==
    IF kind = "mech" THEN "MECHANICAL_SHARES_INVALID"
    ELSE "PERFORMANCE_SHARES_INVALID"

ShareDetail(kind, total) ==
    (IF kind = "mech" THEN "Mechanical" ELSE "Performance")
        \o " shares total " \o FloatToStr(total) \o "%, should be 100%"

\* C3: for every row convert_row returned whose share fields are numbers or
\* blank, and for the mechanical and the performance shares alike: a total
\* of 0, or one within the tolerance of 100, gives no error of the kind; any
\* other total, below zero included, gives exactly one, whose detail carries
\* the total.
C3_ShareTotalsChecked ==
    \A k \in 1..Len(converted_rows) :
        (/\ Converted(k)
         /\ \A kind \in {"mech", "perf"}, i \in 1..config.rules.max_participants :
                ShareIsNumber(converted_rows[k], ShareCol(kind, i)))
        => \A kind \in {"mech", "perf"} :
            LET total == SumOfShares(converted_rows[k], kind,
                                     config.rules.max_participants)
                found == ErrorsOf(k, ShareCode(kind))
            IN  IF total = 0
                   \/ Abs(total - FullShare * NumScale)
                        <= config.rules.share_tolerance
                THEN found = <<>>
                ELSE /\ Len(found) = 1
                     /\ found[1].error_detail = ShareDetail(kind, total)

\* C4: a strict run that collected an error, in which no row raised and no
\* exception ended the run, returns False, and the file at the output path
\* is then the output table, with one row for every input row.
C4_StrictFailsAfterOutput ==
    (/\ RanToTheEnd /\ strict
     /\ errors # <<>> /\ conversion_errors = 0)
    => (/\ result = "False"
        /\ files[output_file].kind = "table"
        /\ Len(files[output_file].rows) = Len(df.rows))

\* the text a strip transform leaves of a cell
Trimmed(cell) == IF cell.t = "str" THEN Str(StrStrip(cell.s)) ELSE Str("")

\* the output table has a row for every input row, in the order of the
\* input, and its stripped columns hold the trimmed cells
OutputFollowsInput ==
    /\ files[output_file].kind = "table"
    /\ Len(files[output_file].rows) = Len(df.rows)
    /\ \A k \in 1..Len(df.rows), c \in 1..Len(config.columns) :
        (/\ config.columns[c].transform = "strip"
         /\ config.columns[c].source \in df.header)
        => files[output_file].rows[k][config.columns[c].dest]
                = Trimmed(df.rows[k][config.columns[c].source])

NoErrorReport == \A p \in AllPaths : files[p].kind # "errors"

\* no field error and no blank required field was collected
NoFieldFailure ==
    \A n \in 1..Len(errors) :
        errors[n].error_code \notin {"FIELD_ERROR", "REQUIRED_FIELD_MISSING"}

\* C5 as stated: a run over a readable input with data rows, in which no
\* field fails validation and no required field is blank (no row raised, no
\* exception ended the run), returns True, its output follows the input and
\* no error report is written.
C5_SuccessWithoutFieldFailure ==
    (/\ RanToTheEnd /\ df.rows # <<>> /\ conversion_errors = 0
     /\ NoFieldFailure)
    => (result = "True" /\ OutputFollowsInput /\ NoErrorReport)

\* C5, amended: a run over a readable input with data rows that collected no
\* error of any kind, in which no row raised and no exception ended the run,
\* returns True, strict or not; its output has a row for every input row,
\* in the order of the input, with the trimmed values, and no error report
\* is written.
C5_SuccessWithoutAnyError ==
    (/\ RanToTheEnd /\ df.rows # <<>> /\ conversion_errors = 0
     /\ errors = <<>>)
    => (result = "True" /\ OutputFollowsInput /\ NoErrorReport)

\* a strict run over two different rows ended with no error
C5_Witness ==
    /\ RanToTheEnd /\ strict /\ errors = <<>> /\ conversion_errors = 0
    /\ config = MapCatalog /\ df.header = FullHeader
    /\ Len(df.rows) = 2 /\ df.rows[1] # df.rows[2]
    /\ df.rows[1]["Title"] = Str(" Song ")
    /\ files[output_file].rows[1]["Work Title"] = Str("Song")
    /\ result = "True"

\* the field is absent, null, empty or blank text
BlankField(row, field) ==
    \/ field \notin DOMAIN row
    \/ row[field].t = "nan"
    \/ row[field].t = "str" /\ StrStrip(row[field].s) = ""
    \/ row[field].t = "list" /\ row[field].l = <<>>

\* C6: for every row convert_row returned and every required field, the run
\* holds one REQUIRED_FIELD_MISSING error for the field when it is blank in
\* the transformed row, and none when it holds a value, the number zero
\* included.
C6_RequiredMissingIffBlank ==
    \A k \in 1..Len(converted_rows) :
        Converted(k) =>
        \A f \in 1..Len(config.rules.required_fields) :
            LET field == config.rules.required_fields[f]
                found == SelectSeq(ErrorsOf(k, "REQUIRED_FIELD_MISSING"),
                            LAMBDA e : e.error_detail =
                                "Required field '" \o field \o "' is empty")
            IN  Len(found) = IF BlankField(converted_rows[k], field)
                             THEN 1 ELSE 0

\* the output path with its extension removed, then _errors.csv
SiblingErrorPath(path) ==
    IF EndsWith(path, ".xlsx")
    THEN SubSeq(path, 1, Len(path) - Len(".xlsx")) \o "_errors.csv"
    ELSE SubSeq(path, 1, Len(path) - Len(".csv")) \o "_errors.csv"

\* C7: after a run with a .csv or a .xlsx output path that no exception
\* ended, an error report is found only if the run collected an error, and
\* only at the output path with its extension replaced by _errors.csv.
C7_ErrorReportBesideOutput ==
    (/\ RanToTheEnd
     /\ EndsWith(output_file, ".csv") \/ EndsWith(output_file, ".xlsx"))
    => \A p \in AllPaths :
        files[p].kind = "errors"
        => (errors # <<>> /\ p = SiblingErrorPath(output_file))

\* converting input row k raises
Raises(k) == convert_row(df.rows[k], RowIdx(k), config).raised

\* C8: after a run of a converter that is not strict, with a .csv or a .xlsx
\* output path, that no exception ended, the output table has a row for
\* every input row, and for every input row whose conversion raised the row
\* at its position has blank mapped columns and carries ERROR_ROW_<n>, n the
\* index of the row; the other rows are the converted ones.
C8_RaisingRowSubstituted ==
    (/\ RanToTheEnd /\ ~strict /\ df.rows # <<>>
     /\ EndsWith(output_file, ".csv") \/ EndsWith(output_file, ".xlsx"))
    => /\ files[output_file].kind = "table"
       /\ Len(files[output_file].rows) = Len(df.rows)
       /\ \A k \in 1..Len(df.rows) :
            LET out == files[output_file].rows[k] IN
            IF Raises(k)
            THEN /\ \A d \in DOMAIN out \ {"Work Title"} : out[d] = Str("")
                 /\ \E d \in DOMAIN out :
                        out[d] = Str("ERROR_ROW_" \o ToString(RowIdx(k)))
            ELSE out = FrameRow(config.columns,
                        convert_row(df.rows[k], RowIdx(k), config).result)

\* C9: in a strict converter no row that raises is passed over, and once a
\* row has raised the run has returned False at that row: the rows before it
\* are the only ones converted, and no file is written.
C9_StrictAbortsAtFirstRaise ==
    strict =>
        /\ \A j \in 1..(idx - 1) : j <= Len(df.rows) => ~Raises(j)
        /\ conversion_errors > 0 =>
            /\ pc = "returned" /\ result = "False"
            /\ caught = "TransformError"
            /\ conversion_errors = 1
            /\ idx <= Len(df.rows) /\ Raises(idx)
            /\ Len(converted_rows) = idx - 1
            /\ \A p \in AllPaths : files[p] = NoFile

\* a strict run converted its first row and stopped at the second of two
C9_Witness ==
    /\ strict /\ pc = "returned" /\ conversion_errors = 1
    /\ Len(df.rows) = 2 /\ idx = 2 /\ Len(converted_rows) = 1
    /\ result = "False"

\* the path ends in .xlsx, .xls or .csv, in any case of letters
KnownExtension(path) ==
    \E ext \in {".xlsx", ".xls", ".csv"} :
        /\ Len(path) >= Len(ext)
        /\ StrLower(SubSeq(path, Len(path) - Len(ext) + 1, Len(path))) = ext

\* the input file is missing, over the size guard, of an unsupported
\* extension, unreadable or without data rows
BadInput ==
    \/ ~input_file.exists
    \/ input_file.size > DefaultMaxFileSize
    \/ ~KnownExtension(input_file.path)
    \/ ~input_file.readable
    \/ input_file.frame.rows = <<>>

\* C10: on a bad input file the run never reaches the conversion of a row,
\* writes no file, and returns False.
C10_BadInputFailsTheRun ==
    (pc # "idle" /\ BadInput)
    => /\ pc \in {"reading", "returned"}
       /\ pc = "returned" => result = "False"
       /\ converted_rows = <<>> /\ conversion_errors = 0
       /\ df.rows = <<>>
       /\ \A p \in AllPaths : files[p] = NoFile

\* the run on a readable table in a file of an unsupported extension has
\* returned
C10_Witness ==
    /\ pc = "returned" /\ result = "False"
    /\ input_file.path = "in.txt" /\ input_file.exists
    /\ input_file.readable /\ input_file.frame.rows # <<>>
    /\ caught = "ValueError"

\* the steps of pc: Idle -> Reading -> Converting -> Writing -> Done|Failed,
\* "reporting" being the part of Writing that follows the output table
PcOrder ==
    << pc, pc' >> \in
        { << "idle", "reading" >>, << "idle", "returned" >>,
          << "reading", "converting" >>, << "reading", "returned" >>,
          << "converting", "converting" >>, << "converting", "reporting" >>,
          << "converting", "returned" >>, << "reporting", "returned" >> }

\* a step that writes the output table comes after every input row was
\* converted or substituted, and writes nothing else
OutputAfterAllRows ==
    (\E p \in AllPaths : files'[p] # files[p] /\ files'[p].kind = "table")
    => /\ idx > Len(df.rows)
       /\ Len(converted_rows) = Len(df.rows)
       /\ df.rows # <<>>
       /\ \A p \in AllPaths : files'[p] # files[p] => p = output_file

\* a step that writes the error report comes after the output table was
\* written
ReportAfterOutput ==
    (\E p \in AllPaths : files'[p] # files[p] /\ files'[p].kind = "errors")
    => files[output_file].kind = "table"

\* the call has returned exactly when it has a result, and an exception
\* caught by the handlers gives the result False
ReturnedWithResult ==
    /\ (pc = "returned") <=> (result \in {"True", "False"})
    /\ caught # "" => pc = "returned" /\ result = "False"

\* C11: a convert_file call moves through reading, converting and writing in
\* this order, and always ends by returning True or False (an exception is
\* caught by its handlers, never propagated); the output table is written
\* in one step after the last row was converted or substituted, and the
\* error report only after the output table.
C11_RunsInOrderToTheEnd ==
    /\ [][PcOrder]_vars
    /\ [][OutputAfterAllRows]_vars
    /\ [][ReportAfterOutput]_vars
    /\ ReturnedWithResult /\ [][ReturnedWithResult']_vars
    /\ <>[](pc = "returned")

\* a run of two rows has returned after writing its output and its report
C11_Witness ==
    /\ pc = "returned" /\ result = "True" /\ output_file = "out.csv"
    /\ Len(df.rows) = 2
    /\ files["out.csv"].kind = "table" /\ Len(files["out.csv"].rows) = 2
    /\ files["out_errors.csv"].kind = "errors"

(***************************************************************************)
(* Properties of the constructor, on the runs of SpecLoad.                 *)
(***************************************************************************)
\* the mapping is missing on disk, empty, without 'columns', with an empty
\* 'columns' list, or has an entry that is no dictionary with a 'dest' key
BadMapping(file) ==
    \/ ~file.exists
    \/ file.config.t = "none"
    \/ ~file.config.has_columns
    \/ Len(file.config.columns) = 0
    \/ \E i \in 1..Len(file.config.columns) :
        \/ ~file.config.columns[i].dict
        \/ "dest" \notin DOMAIN file.config.columns[i].fields

\* C12: the constructor raises ConfigurationError on a bad mapping, and no
\* converter exists that could process a row; on a mapping of a readable
\* size whose entries are all dictionaries with a 'dest' key it succeeds,
\* also when an entry names an unknown transform.
C12_BadMappingIsFatal ==
    probe.done =>
        /\ BadMapping(probe.value)
            => /\ probe.out.raised
               /\ StartsWith(probe.out.exc, "ConfigurationError")
               /\ pc = "raised" /\ config = NoConfig
               /\ converted_rows = <<>> /\ errors = <<>>
        /\ (~BadMapping(probe.value) /\ probe.value.size <= MappingSizeLimit)
            => /\ ~probe.out.raised
               /\ pc = "idle"
               /\ Len(config.columns) = Len(probe.value.config.columns)

\* a mapping whose first entries are good and whose last has no 'dest'
C12_Witness ==
    /\ probe.done /\ probe.out.raised
    /\ Len(probe.value.config.columns) = MaxColumns
    /\ probe.value.config.columns[1].dict
    /\ "dest" \in DOMAIN probe.value.config.columns[1].fields
    /\ probe.value.config.columns[MaxColumns].dict
    /\ "dest" \notin DOMAIN probe.value.config.columns[MaxColumns].fields

\* a mapping with an unknown transform was loaded
C12_WitnessUnknownTransform ==
    /\ probe.done /\ ~probe.out.raised /\ pc = "idle"
    /\ \E i \in 1..Len(config.columns) :
            config.columns[i].transform = "mystery"

(***************************************************************************)
(* Properties of the output table's shape, on the runs of Spec.            *)
(***************************************************************************)
\* C13: every output table written has the mapping's 'dest' names as its
\* columns, in the mapping's order, also when rows were substituted by error
\* rows; every row of it, and every result convert_row returned, has
\* exactly one entry for each destination.
C13_ColumnsInMappingOrder ==
    /\ \A p \in AllPaths :
        files[p].kind = "table" =>
            /\ DOMAIN files[p].columns = 1..Len(config.columns)
            /\ \A k \in 1..Len(config.columns) :
                    files[p].columns[k] = config.columns[k].dest
            /\ \A i \in 1..Len(files[p].rows) :
                    DOMAIN files[p].rows[i]
                        = { config.columns[k].dest : k \in 1..Len(config.columns) }
    /\ \A i \in 1..Len(converted_rows) :
        Converted(i) =>
            DOMAIN converted_rows[i]
                = { config.columns[k].dest : k \in 1..Len(config.columns) }

\* a table of a converted row and an error row, of a mapping without a
\* 'Work Title' destination
C13_Witness ==
    /\ pc = "returned" /\ result = "True"
    /\ config = MapNoTitle
    /\ files[output_file].kind = "table"
    /\ Len(files[output_file].rows) = 2
    /\ conversion_errors = 1
    /\ Converted(1)
    /\ "Work Title" \in DOMAIN converted_rows[2]

(***************************************************************************)
(* Properties of the entries of self.errors, on the runs of Spec.          *)
(***************************************************************************)
\* the 'Work Title' entry of the k-th assembled row, 'Unknown' without one
TitleOfRow(k) ==
    IF "Work Title" \in DOMAIN converted_rows[k]
    THEN converted_rows[k]["Work Title"]
    ELSE Str("Unknown")

\* C14: every recorded error belongs to a converted data row k (counted
\* from 1), carries row_index k + 1 and the transformed 'Work Title' of that
\* row, or 'Unknown' when the row has no such entry; the errors are kept in
\* the order of the rows, so all errors of a row agree on both.
C14_ErrorsNameTheirRow ==
    /\ \A i \in 1..Len(errors) :
        \E k \in 1..Len(converted_rows) :
            /\ Converted(k)
            /\ errors[i].row_index = k + 1
            /\ errors[i].work_title = TitleOfRow(k)
    /\ \A i, j \in 1..Len(errors) :
        i <= j => errors[i].row_index <= errors[j].row_index

\* the second data row has a FIELD_ERROR and a row-level error, and a row
\* without a 'Work Title' entry has an error
C14_Witness ==
    /\ pc = "returned"
    /\ \E i, j \in 1..Len(errors) :
        /\ errors[i].error_code = "FIELD_ERROR"
        /\ errors[j].error_code = "REQUIRED_FIELD_MISSING"
        /\ errors[i].row_index = 3 /\ errors[j].row_index = 3
        /\ errors[i].work_title = errors[j].work_title

\* an error of a row without a 'Work Title' entry
C14_WitnessUnknown ==
    /\ pc = "returned"
    /\ \E i \in 1..Len(errors) : errors[i].work_title = Str("Unknown")

(***************************************************************************)
(* Properties of a column whose transform raises, on the runs of           *)
(* SpecDefaults.                                                           *)
(***************************************************************************)
\* the text of a default, '' when the mapping sets none
FallbackOf(col) == IF col.default.s # "" THEN col.default ELSE Str("")

\* the transform of column c raises on the k-th data row
TransformRaises(k, c) ==
    /\ config.columns[c].transform # ""
    /\ transform_value(SourceValue(config.columns[c], df.rows[k]),
                       config.columns[c].transform, config.lookups).raised

\* what column c gives the k-th data row
ValueOf(k, c) ==
    IF config.columns[c].transform = ""
    THEN SourceValue(config.columns[c], df.rows[k])
    ELSE Let(transform_value(SourceValue(config.columns[c], df.rows[k]),
                config.columns[c].transform, config.lookups), LAMBDA t :
            IF t.raised THEN FallbackOf(config.columns[c]) ELSE t.v)

\* the k-th row assembled from column c on; of two columns of one
\* destination the later one counts
RECURSIVE AssembledFrom(_, _)
AssembledFrom(k, c) ==
    IF c > Len(config.columns) THEN <<>>
    ELSE AssembledFrom(k, c + 1) @@ (config.columns[c].dest :> ValueOf(k, c))

\* the assembled k-th row
Assembled(k) == AssembledFrom(k, 1)

\* a validation of the k-th row, assembled as row, raises: a column's rule
\* or the row's check
ValidationRaises(k, row) ==
    \/ \E c \in 1..Len(config.columns) :
        /\ config.columns[c].validation # ""
        /\ validate_value(ValueOf(k, c), config.columns[c].validation,
                          config.columns[c].dest, config.lookups).raised
    \/ validate_row(row, k + 1, config.rules).raised

\* the FIELD_ERROR entries of the k-th row that mention destination dest
FieldErrorsAbout(k, dest) ==
    { i \in 1..Len(errors) :
        /\ errors[i].row_index = k + 1
        /\ errors[i].error_code = "FIELD_ERROR"
        /\ Contains(errors[i].error_detail, dest) }

\* the FIELD_ERROR entries of the k-th row that report a transform error of
\* destination dest
TransformErrorsOf(k, dest) ==
    { i \in 1..Len(errors) :
        /\ errors[i].row_index = k + 1
        /\ errors[i].error_code = "FIELD_ERROR"
        /\ StartsWith(errors[i].error_detail,
                      "Transform error in " \o dest \o ": ") }

\* C15 as stated: a raising transform leaves exactly one FIELD_ERROR for
\* its destination, the destination holds the default (or ''), and the row
\* is returned with every destination present.
C15_TransformFailureRecordedOnce ==
    \A k \in 1..Len(converted_rows) :
        \A c \in 1..Len(config.columns) :
            TransformRaises(k, c) =>
                /\ Converted(k)
                /\ Cardinality(FieldErrorsAbout(k, config.columns[c].dest)) = 1
                /\ converted_rows[k][config.columns[c].dest]
                        = FallbackOf(config.columns[c])
                /\ DOMAIN converted_rows[k]
                        = { config.columns[c2].dest : c2 \in 1..Len(config.columns) }

\* C15 amended: a row is returned unless one of its validations raises; in
\* a returned row, a raising transform leaves exactly one FIELD_ERROR that
\* reports the transform error of its destination, the destination holds
\* the default (or ''), and every column has its value.
C15_TransformFailureFallsBack ==
    \A k \in 1..Len(converted_rows) :
        Let(Assembled(k), LAMBDA row :
            /\ Converted(k) <=> ~ValidationRaises(k, row)
            /\ Converted(k) =>
                /\ converted_rows[k] = row
                /\ \A c \in 1..Len(config.columns) :
                    Cardinality(TransformErrorsOf(k, config.columns[c].dest))
                        = IF TransformRaises(k, c) THEN 1 ELSE 0)

\* a returned row with two raising transforms: '' for the column without a
\* default, the default for the other, and the later columns filled
C15_Witness ==
    /\ pc = "returned" /\ config = MapDefaults
    /\ \E k \in 1..Len(converted_rows) :
        /\ Converted(k)
        /\ TransformRaises(k, 2) /\ TransformRaises(k, 3)
        /\ converted_rows[k]["Catalog Number"] = Str("")
        /\ converted_rows[k]["Label"] = Str("Indie")
        /\ converted_rows[k]["Territory"] = Str("WW")
        /\ Cardinality(FieldErrorsAbout(k, "Catalog Number")) = 2

(***************************************************************************)
(* Properties of the columns whose source the input lacks, on the runs of  *)
(* SpecDefaults.                                                           *)
(***************************************************************************)
\* column c has no source, or a source the input's header lacks
WithoutSource(c) ==
    \/ config.columns[c].source = ""
    \/ config.columns[c].source \notin input_file.frame.header

\* the input's header lacks the source of every column
NoSourcePresent ==
    \A c \in 1..Len(config.columns) :
        /\ config.columns[c].source # ""
        /\ config.columns[c].source \notin input_file.frame.header

\* the default of column c after the column's transform
DefaultTransformed(c) ==
    IF config.columns[c].transform = "" THEN config.columns[c].default
    ELSE IF transform_value(config.columns[c].default,
                config.columns[c].transform, config.lookups).raised
    THEN FallbackOf(config.columns[c])
    ELSE transform_value(config.columns[c].default,
            config.columns[c].transform, config.lookups).v

\* C16 as stated: whichever sources the input lacks, all of them included,
\* the run goes on to convert the rows, and a destination without a source
\* value holds the mapping's default.
C16_AbsentSourceGetsDefault ==
    /\ (pc = "returned" /\ ~BadInput) => df = input_file.frame
    /\ \A k \in 1..Len(converted_rows) :
        Converted(k) =>
            \A c \in 1..Len(config.columns) :
                WithoutSource(c) =>
                    converted_rows[k][config.columns[c].dest]
                        = config.columns[c].default

\* C16 amended: the run on a good input stops before any row exactly when
\* every column has a source and the input has none of them; otherwise a
\* destination without a source value holds what the column's transform
\* makes of the default.
C16_AbsentSourceStartsFromDefault ==
    /\ (pc = "returned" /\ ~BadInput) =>
        /\ NoSourcePresent <=> df # input_file.frame
        /\ NoSourcePresent =>
            /\ result = "False" /\ caught = "ValueError"
            /\ converted_rows = <<>>
            /\ \A p \in AllPaths : files[p] = NoFile
    /\ \A k \in 1..Len(converted_rows) :
        Converted(k) =>
            \A c \in 1..Len(config.columns) :
                WithoutSource(c) =>
                    converted_rows[k][config.columns[c].dest]
                        = DefaultTransformed(c)

\* an input with none of the configured sources was converted: the column
\* without a source counts as mappable, and every destination started from
\* its default
C16_Witness ==
    /\ pc = "returned" /\ result = "True"
    /\ config = MapDefaults
    /\ input_file.frame.header = {"Other"}
    /\ Len(converted_rows) = 1 /\ Converted(1)
    /\ converted_rows[1]["Territory"] = Str("WW")
    /\ converted_rows[1]["Label"] = Str("Indie")
    /\ converted_rows[1]["Work Title"] = Str("")
    /\ files[output_file].kind = "table"

(***************************************************************************)
(* Properties of the percent and code formatters, on the runs of           *)
(* SpecFormat.                                                             *)
(***************************************************************************)
\* the number the text of the call parses to, once '%' is removed
ParsedInput == ParseFloat(StrReplace(probe.value.s, "%", ""))

\* m is n rounded to a multiple of step (a nearest multiple)
IsNearest(m, n, step) == m % step = 0 /\ 2 * Abs(m - n) <= step

\* C17: percent_0_100 of a text that parses to x returns round(100 x, 2)
\* when 0 <= x <= 1, so 100 for x = 1, and round(x, 2) when x > 1.  Numbers
\* are in units of 1/NumScale: two decimals are the multiples of 100.
C17_PercentHundred ==
    (probe.done /\ probe.op = "percent_0_100" /\ ParsedInput.ok) =>
        /\ ~probe.out.raised /\ probe.out.v.t = "num"
        /\ (0 <= ParsedInput.n /\ ParsedInput.n <= NumScale)
            => IsNearest(probe.out.v.n, 100 * ParsedInput.n, 100)
        /\ ParsedInput.n > NumScale
            => IsNearest(probe.out.v.n, ParsedInput.n, 100)
        /\ ParsedInput.n = NumScale => probe.out.v.n = 100 * NumScale

\* the boundary: percent_0_100("1") = 100.0
C17_Witness ==
    /\ probe.done /\ probe.op = "percent_0_100"
    /\ probe.value.s = "1" /\ probe.out.v = Num(100 * NumScale)

\* C18: percent_0_1 of a text that parses to x returns round(x / 100, 4)
\* when x > 1 and round(x, 4) when x <= 1; of a y > 1 that percent_0_100
\* returned it returns round(y / 100, 4); a text that does not parse gives
\* 0.0 from both transforms, and neither raises.  Four decimals are the
\* units of 1/NumScale.
C18_PercentOne ==
    /\ (probe.done /\ probe.op = "percent_0_1" /\ probe.name = ""
            /\ ParsedInput.ok) =>
        /\ ~probe.out.raised /\ probe.out.v.t = "num"
        /\ ParsedInput.n > NumScale
            => 2 * Abs(100 * probe.out.v.n - ParsedInput.n) <= 100
        /\ ParsedInput.n <= NumScale => probe.out.v.n = ParsedInput.n
    /\ (probe.done /\ probe.op = "percent_0_1"
            /\ probe.name = "percent_0_100"
            /\ convert_to_percent_100(probe.value.s).n > NumScale) =>
        /\ ~probe.out.raised /\ probe.out.v.t = "num"
        /\ 2 * Abs(100 * probe.out.v.n
                    - convert_to_percent_100(probe.value.s).n) <= 100
    /\ (probe.done /\ probe.op \in {"percent_0_100", "percent_0_1"}
            /\ probe.name = "" /\ ~ParsedInput.ok) =>
        /\ ~probe.out.raised /\ probe.out.v = Num(0)

\* percent_0_1 of the 33.33 that percent_0_100 made of "0.3333"
C18_Witness ==
    /\ probe.done /\ probe.op = "percent_0_1"
    /\ probe.name = "percent_0_100"
    /\ probe.value.s = "0.3333" /\ probe.out.v = Num(3333)

\* an unparseable text gave 0.0
C18_WitnessUnparseable ==
    /\ probe.done /\ probe.op = "percent_0_1" /\ probe.name = ""
    /\ probe.value.s = "abc" /\ probe.out.v = Num(0)

\* C19: format_iswc of a text with exactly ten digits gives 'T-', the
\* first nine digits, '-' and the tenth, and format_iswc of that result gives
\* it again; a text with another number of digits is returned unchanged.
C19_IswcFormatIsIdempotent ==
    (probe.done /\ probe.op = "format_iswc") =>
        /\ ~probe.out.raised /\ probe.out.v.t = "str"
        /\ Len(OnlyDigits(probe.value.s)) = 10 =>
                probe.out.v.s
                    = "T-" \o SubSeq(OnlyDigits(probe.value.s), 1, 9)
                        \o "-" \o SubSeq(OnlyDigits(probe.value.s), 10, 10)
        /\ Len(OnlyDigits(probe.value.s)) # 10 =>
                probe.out.v.s = probe.value.s

\* the second call on the result of a ten-digit text
C19_Witness ==
    /\ probe.done /\ probe.op = "format_iswc" /\ probe.name = "format_iswc"
    /\ probe.value.s = "T-123.456.789-0"
    /\ probe.out.v.s = "T-123456789-0"

\* the text before the first newline or comma, the whole text without one
FirstCode(text) ==
    Let(FindFirst(text, "\n"), LAMBDA a :
    Let(FindFirst(text, ","), LAMBDA b :
    Let(IF a = 0 THEN b ELSE IF b = 0 THEN a ELSE Min(a, b), LAMBDA cut :
        IF cut = 0 THEN text ELSE SubSeq(text, 1, cut - 1))))

\* uppercase, without hyphens and spaces
CleanCode(text) ==
    StrReplace(StrReplace(StrUpper(StrStrip(text)), "-", ""), " ", "")

\* twelve characters in groups of 2, 3, 2 and 5
GroupedCode(code) ==
    IF Len(code) = 12
    THEN SubSeq(code, 1, 2) \o "-" \o SubSeq(code, 3, 5) \o "-"
            \o SubSeq(code, 6, 7) \o "-" \o SubSeq(code, 8, 12)
    ELSE code

\* C20: format_isrc takes the first code of a list separated by newlines
\* or commas, cleans it, groups it 2-3-2-5 when it has twelve characters,
\* and never returns a comma or a newline.
C20_IsrcFirstCode ==
    (probe.done /\ probe.op = "format_isrc") =>
        /\ ~probe.out.raised /\ probe.out.v.t = "str"
        /\ probe.out.v.s
                = GroupedCode(CleanCode(FirstCode(StrStrip(probe.value.s))))
        /\ ~Contains(probe.out.v.s, ",")
        /\ ~Contains(probe.out.v.s, "\n")

(***************************************************************************)
(* Properties of the date rule and of padleft, on the runs of SpecCalls.   *)
(***************************************************************************)
\* four digits, a hyphen, two digits, a hyphen, two digits, and no more
StrictDate(text) ==
    /\ Len(text) = 10
    /\ \A i \in {1, 2, 3, 4, 6, 7, 9, 10} : IsDigit(Ch(text, i))
    /\ Ch(text, 5) = "-" /\ Ch(text, 8) = "-"

\* C21: validate_value with the rule date_format returns exactly one error
\* for a value whose text is not of the form YYYY-MM-DD, and no error for a
\* value whose text is.
C21_DateFormatStrict ==
    (probe.done /\ probe.op = "validate_value" /\ probe.name = "date_format")
    => /\ ~probe.errs.raised
       /\ Len(probe.errs.errors)
            = IF StrictDate(PyStr(probe.value)) THEN 0 ELSE 1

\* the text v that transform_value works on
StrippedInput == StrStrip(PyStr(probe.value))

\* the fill character of the padleft names the calls are made with
FillOf(name) == SubSeq(name, Len(name), Len(name))

\* C26: padleft:5:<char> returns the value with as many fill characters in
\* front of it as it lacks to five characters, and the value itself when it
\* has five or more; also for the fill character '0' and a value with a sign.
C26_PadLeftKeepsValue ==
    (/\ probe.done /\ probe.op = "transform_value"
     /\ probe.name \in {"padleft:5:0", "padleft:5:*"}
     /\ probe.value # NaN /\ probe.value # Str(""))
    => /\ ~probe.out.raised
       /\ probe.out.v
            = Str(Repeat(FillOf(probe.name), 5 - Len(StrippedInput))
                    \o StrippedInput)

(***************************************************************************)
(* Properties of the share totals and of the substituted rows, on the runs *)
(* of Spec.                                                                *)
(***************************************************************************)
\* C22: for every row convert_row returned, the totals validate_row works
\* with are the sums of the parseable Mechanical Share and Performance
\* Share values over the participant slots; a blank or unparseable value
\* counts as zero in its own total and leaves the other total alone.
C22_TotalsSumParseableShares ==
    \A k \in 1..Len(converted_rows) :
        Converted(k) =>
            ShareTotals(converted_rows[k], 1, config.rules.max_participants,
                        [mech |-> 0, perf |-> 0])
                = [mech |-> SumOfShares(converted_rows[k], "mech",
                                        config.rules.max_participants),
                   perf |-> SumOfShares(converted_rows[k], "perf",
                                        config.rules.max_participants)]

\* C23: when a row was substituted by an ERROR_ROW_<n> row, the error list
\* holds an entry with the index of that row.
C23_SubstitutedRowIsReported ==
    \A k \in 1..Len(converted_rows) :
        ~Converted(k) =>
            \E i \in 1..Len(errors) : errors[i].row_index = k + 1

(***************************************************************************)
(* Properties of the order of self.errors, on the runs of SpecDefaults.    *)
(***************************************************************************)
\* the place of an error code within the errors of one row
CodeRank(code) ==
    CASE code = "FIELD_ERROR" -> 1
      [] code = "REQUIRED_FIELD_MISSING" -> 2
      [] code = "MECHANICAL_SHARES_INVALID" -> 3
      [] code = "PERFORMANCE_SHARES_INVALID" -> 4
      [] OTHER -> 0

\* the first column whose destination the detail of a FIELD_ERROR names
ColumnNamed(detail) ==
    CHOOSE c \in 0..Len(config.columns) :
        /\ c > 0 => Contains(detail, config.columns[c].dest)
        /\ \A c2 \in 1..Len(config.columns) :
            Contains(detail, config.columns[c2].dest) => c > 0 /\ c <= c2

\* the first required field that the detail of an error names
RequiredNamed(detail) ==
    CHOOSE f \in 0..Len(config.rules.required_fields) :
        /\ f > 0 => Contains(detail, config.rules.required_fields[f])
        /\ \A f2 \in 1..Len(config.rules.required_fields) :
            Contains(detail, config.rules.required_fields[f2])
                => f > 0 /\ f <= f2

\* the entries are in the order of the rows; within a row the field errors
\* come first, in the order of the columns, then the missing required
\* fields, in their order, then the mechanical and the performance total
ErrorsInOrder ==
    /\ \A i \in 1..Len(errors) : CodeRank(errors[i].error_code) > 0
    /\ \A i, j \in 1..Len(errors) :
        i < j =>
            /\ errors[i].row_index <= errors[j].row_index
            /\ errors[i].row_index = errors[j].row_index =>
                /\ CodeRank(errors[i].error_code)
                        <= CodeRank(errors[j].error_code)
                /\ (errors[i].error_code = "FIELD_ERROR"
                        /\ errors[j].error_code = "FIELD_ERROR")
                    => /\ ColumnNamed(errors[i].error_detail) > 0
                       /\ ColumnNamed(errors[i].error_detail)
                            <= ColumnNamed(errors[j].error_detail)
                /\ (errors[i].error_code = "REQUIRED_FIELD_MISSING"
                        /\ errors[j].error_code = "REQUIRED_FIELD_MISSING")
                    => /\ RequiredNamed(errors[i].error_detail) > 0
                       /\ RequiredNamed(errors[i].error_detail)
                            < RequiredNamed(errors[j].error_detail)

\* a blank destination that has the validation 'required' and is a
\* required field has both of its entries
BlankRequiredTwice ==
    \A k \in 1..Len(converted_rows), c \in 1..Len(config.columns) :
        (/\ Converted(k)
         /\ config.columns[c].validation = "required"
         /\ \E f \in 1..Len(config.rules.required_fields) :
                config.rules.required_fields[f] = config.columns[c].dest
         /\ converted_rows[k][config.columns[c].dest].t = "str"
         /\ StrStrip(converted_rows[k][config.columns[c].dest].s) = "")
        => \A code \in {"FIELD_ERROR", "REQUIRED_FIELD_MISSING"} :
            \E i \in 1..Len(errors) :
                /\ errors[i].row_index = k + 1
                /\ errors[i].error_code = code
                /\ errors[i].error_detail
                    = "Required field '" \o config.columns[c].dest
                        \o "' is empty"

\* a step keeps the entries the list has, in their places
ErrorsAppendOnly ==
    /\ Len(errors') >= Len(errors)
    /\ \A i \in 1..Len(errors) : errors'[i] = errors[i]

FirstSeparator(text) ==
    Let(FindFirst(text, "("), LAMBDA p :
        Let(FindFirst(text, " - "), LAMBDA d :
            IF p = 0 THEN d ELSE IF d = 0 THEN p ELSE Min(p, d)))

\* the trimmed text before the first '(' or ' - '
BeforeSeparator(text) ==
    IF FirstSeparator(text) = 0 THEN StrStrip(text)
    ELSE StrStrip(SubSeq(text, 1, FirstSeparator(text) - 1))

\* C25: for a non-blank text extract_writer_name returns the trimmed text
\* before its first '(' or ' - ', whichever comes first.
C25_WriterNameBeforeSeparator ==
    (probe.done /\ probe.op = "extract_writer_name"
        /\ StrStrip(probe.value.s) # "")
    => probe.out.v = Str(BeforeSeparator(probe.value.s))

(***************************************************************************)
(* Properties of self.errors over several calls, on the runs of SpecAgain. *)
(***************************************************************************)
\* the errors the rows 1..k of the table of the current call produce
RECURSIVE ProducedBy(_)
ProducedBy(k) ==
    IF k = 0 THEN <<>>
    ELSE Let(convert_row(df.rows[k], RowIdx(k), config), LAMBDA r :
            ProducedBy(k - 1) \o (IF r.raised THEN <<>> ELSE r.errors))

\* the errors the current call produced: those of the rows it went through
ProducedByThisCall == ProducedBy(Min(idx - 1, Len(df.rows)))

\* C27: when a convert_file call has returned, self.errors holds the errors
\* that call produced and no others, whatever the earlier calls left and
\* also when the call failed before it read a row.
C27_ErrorsOfThisCallOnly ==
    pc = "returned" => errors = ProducedByThisCall

=============================================================================
